---- MODULE Spec2Model ----
(***************************************************************************)
(* Model of the condition-to-price pipeline of Dynamic_Pricing_Justification *)
(*                                                                         *)
(*   ConditionEvaluator   NLP/src/cv_analysis/condition_evaluator.py       *)
(*   PriceCalculator      NLP/src/pricing/price_calculator.py              *)
(*   PriceDatabase        NLP/src/external/price_database.py               *)
(*   PriceCache           NLP/src/external/price_cache.py                  *)
(*   PriceSearchEngine    src/external/price_search.py                     *)
(*   POST /calculate-price   api/main.py                                   *)
(*   FeatureExtractor     src/data_processing/feature_extractor.py         *)
(*   TemplateManager      src/nlp_engine/template_manager.py               *)
(*   TextGenerator        NLP/src/nlp_engine/text_generator.py             *)
(*   InputValidator       src/ and NLP/src/data_processing/input_validator.py *)
(*   CVIntegrationService NLP/src/services/cv_integration_service.py       *)
(*   POST /cv-to-pricing  NLP/api/main.py                                  *)
(*   BilingualReportGenerator NLP/src/nlp_engine/bilingual_report_generator.py *)
(*                                                                         *)
(* Numbers are fixed point.  Python floats are modelled as exact decimals: *)
(*   money    in cents                                                     *)
(*   percent  in 1/1000 percentage point    (PctScale    units per 1%)     *)
(*   impact   in 1/100000                   (ImpactScale units per 1.0)    *)
(*   score    in 1/1000                     (ScoreScale  units per point)  *)
(*   years    in 1/10                       (YearScale   units per year)   *)
(* An optional value (a dict key that may be missing, or None) is a        *)
(* sequence of length 0 or 1; Get mirrors dict.get(key, default).          *)
(* A Python string that the code takes apart (brand, model, category) is a *)
(* sequence of one-character strings; a label that the code only lowers    *)
(* and looks up (condition, severity) is a TLA+ string.                    *)
(***************************************************************************)
EXTENDS Integers, Sequences, FiniteSets, TLC

VARIABLES
    analysis,     \* ConditionEvaluator input: the raw per-view analysis
    usage_years,  \* ConditionEvaluator input: usage_years argument
    summary,      \* ConditionEvaluator.evaluate_from_gemini's last return value
    cv_data,      \* PriceCalculator: cv_data of the last calculate_used_price call
    request,      \* brand, model, category, reference_price of the last call or request
    result,       \* what calculate_used_price returned in it (<<>> is None, also if not called)
    consulted,    \* the tiers it consulted, in order, each with its outcome
    prices,       \* PriceDatabase.prices   (key -> product data)
    cache,        \* PriceCache.cache       (key -> [timestamp, price_data])
    cache_file,   \* contents of data/price_cache.json
    now,          \* datetime.now(), in days
    use_web_search, \* PriceCalculator.use_web_search
    response      \* last HTTP response of POST /calculate-price

vars == <<analysis, usage_years, summary, cv_data, request, result, consulted,
          prices, cache, cache_file, now, use_web_search, response>>

evalVars  == <<analysis, usage_years, summary>>
callVars  == <<cv_data, request, result, consulted, response>>
storeVars == <<prices, cache, cache_file, now, use_web_search>>

----------------------------------------------------------------------------
(* Fixed-point scales *)

PctScale    == 1000
ImpactScale == 100000
ScoreScale  == 1000
YearScale   == 10

None == <<>>
Some(v) == <<v>>
Get(opt, default) == IF opt = <<>> THEN default ELSE opt[1]

Min(a, b) == IF a <= b THEN a ELSE b
Max(a, b) == IF a >= b THEN a ELSE b

\* Python round() of q + r/d for 0 <= r < d: the nearest integer, a tie going
\* to the even neighbour
RoundTie(q, r, d) ==
    IF 2 * r < d THEN q
    ELSE IF 2 * r > d THEN q + 1
    ELSE IF q % 2 = 0 THEN q ELSE q + 1

\* round(n / d).  n \div d is the floor and n % d is in 0..d-1, also for n < 0.
RoundHalfEven(n, d) == RoundTie(n \div d, n % d, d)

\* the decimal value q + r/d lies midway between q and q + 1
IsMidway(r, d) == 2 * r = d

\* round() of a float that was computed as q + r/d.  A float is a binary
\* fraction: where the decimal value lies midway, the float lies just above or
\* just below it, and round() follows the float (up tells which).
RoundFloat(q, r, d, up) ==
    IF 2 * r < d THEN q
    ELSE IF 2 * r > d THEN q + 1
    ELSE IF up THEN q + 1 ELSE q

PriceSplit == 1000

\* round(x, 2) of a percentage: to a multiple of 0.01 percentage points
RoundPct2(p, up) ==
    RoundFloat(p \div (PctScale \div 100), p % (PctScale \div 100), PctScale \div 100, up)
        * (PctScale \div 100)

\* how the floats of one calculation lie at the midpoints of its roundings
FloatTies == [damage : BOOLEAN, total : BOOLEAN, price : BOOLEAN]

\* str.lower() on the labels of the input vocabulary
Lower(w) ==
    CASE w = "Good"     -> "good"
      [] w = "POOR"     -> "poor"
      [] w = "Critical" -> "critical"
      [] w = "Front"    -> "front"
      [] w = "Back"     -> "back"
      [] w = "Side"     -> "side"
      [] OTHER          -> w

\* str.lower() on one character
LowerChar(c) ==
    CASE c = "A" -> "a"
      [] c = "B" -> "b"
      [] c = "C" -> "c"
      [] c = "X" -> "x"
      [] OTHER   -> c

LowerStr(s) == [i \in 1..Len(s) |-> LowerChar(s[i])]

\* str.rstrip('s'): every trailing "s" is removed
RECURSIVE RStripS(_)
RStripS(s) ==
    IF s # <<>> /\ s[Len(s)] = "s" THEN RStripS(SubSeq(s, 1, Len(s) - 1)) ELSE s

RECURSIVE SumSeq(_)
SumSeq(s) == IF s = <<>> THEN 0 ELSE Head(s) + SumSeq(Tail(s))


----------------------------------------------------------------------------
(* PriceCalculator: depreciation components *)

\* variant: the 2-to-3-year step set below the step before it
UsageDepreciationFlat(cv) ==
    LET u == Get(cv.usage_years, 1 * YearScale)
    IN  IF u < 5 THEN 10 * PctScale
        ELSE IF u < 10 THEN 15 * PctScale
        ELSE IF u < 20 THEN 25 * PctScale
        ELSE IF u < 30 THEN 20 * PctScale
        ELSE 45 * PctScale

\* _calculate_usage_depreciation
UsageDepreciation(cv) ==
    LET u == Get(cv.usage_years, 1 * YearScale)
    IN  IF u < 5 THEN 10 * PctScale            \* usage_years < 0.5
        ELSE IF u < 10 THEN 15 * PctScale      \* usage_years < 1.0
        ELSE IF u < 20 THEN 25 * PctScale      \* usage_years < 2.0
        ELSE IF u < 30 THEN 35 * PctScale      \* usage_years < 3.0
        ELSE 45 * PctScale

\* _calculate_condition_depreciation
ConditionDepreciation(cv) ==
    LET condition == Lower(Get(cv.overall_condition, "good"))
    IN  CASE condition = "excellent" -> 0
          [] condition = "very good" -> 2 * PctScale
          [] condition = "good"      -> 5 * PctScale
          [] condition = "fair"      -> 10 * PctScale
          [] condition = "poor"      -> 15 * PctScale
          [] condition = "damaged"   -> 20 * PctScale
          [] condition = "broken"    -> 30 * PctScale
          [] OTHER                   -> 5 * PctScale

\* severity_weights.get(i.get('severity', 'minor'), 2.0) of the fallback
FallbackWeight(issue) ==
    LET severity == Get(issue.severity, "minor")
    IN  CASE severity = "minor"    -> 2 * PctScale
          [] severity = "moderate" -> 5 * PctScale
          [] severity = "severe"   -> 10 * PctScale
          [] severity = "critical" -> 15 * PctScale
          [] OTHER                 -> 2 * PctScale

\* _calculate_damage_depreciation
DamageDepreciation(cv) ==
    LET damage_impact     == Get(cv.total_discount_impact, 0)
        damage_percentage == damage_impact * ((100 * PctScale) \div ImpactScale)
        detected_issues   == Get(cv.detected_issues, <<>>)
    IN  IF damage_percentage = 0 /\ detected_issues # <<>>
        THEN Min(SumSeq([i \in 1..Len(detected_issues) |-> FallbackWeight(detected_issues[i])]), 25 * PctScale)
        ELSE damage_percentage

\* total_depreciation = min(usage + condition + damage, 85.0)
TotalDepreciation(cv) ==
    Min(UsageDepreciation(cv) + ConditionDepreciation(cv) + DamageDepreciation(cv),
        85 * PctScale)

\* reference_price * (1 - total_depreciation / 100) in cents, as q + r/d.
\* The product reference_price * (100 - total_depreciation) is split at
\* PriceSplit cents so that no intermediate value leaves 32 bits; the quotient
\* and the remainder are those of the whole product.
UsedPriceUnrounded(reference_price, total_depreciation) ==
    LET m    == 100 * PctScale - total_depreciation
        d    == 100 * PctScale
        dhi  == d \div PriceSplit
        hi   == reference_price \div PriceSplit
        lo   == reference_price % PriceSplit
        rest == ((hi * m) % dhi) * PriceSplit + lo * m
    IN  [q |-> (hi * m) \div dhi + rest \div d, r |-> rest % d, d |-> d]

\* round(reference_price * (1 - total_depreciation / 100), 2), in cents
UsedPrice(reference_price, total_depreciation, up) ==
    LET x == UsedPriceUnrounded(reference_price, total_depreciation)
    IN  RoundFloat(x.q, x.r, x.d, up)

\* the dict returned by calculate_used_price once the reference price is known
PricingResult(req, cv, reference_price, price_source, ties) ==
    [ reference_new_price   |-> reference_price,
      calculated_used_price |-> UsedPrice(reference_price, TotalDepreciation(cv), ties.price),
      discount_percentage   |-> RoundPct2(TotalDepreciation(cv), ties.total),
      discount_breakdown    |-> [ usage     |-> RoundPct2(UsageDepreciation(cv), FALSE),
                                  condition |-> RoundPct2(ConditionDepreciation(cv), FALSE),
                                  damage    |-> RoundPct2(DamageDepreciation(cv), ties.damage) ],
      source                |-> price_source,
      brand                 |-> req.brand,
      model                 |-> req.model ]

----------------------------------------------------------------------------
(* ConditionEvaluator *)

\* round(x, 3) of an impact, round(x, 2) of a score
RoundImpact3(x) == RoundHalfEven(x, ImpactScale \div 1000) * (ImpactScale \div 1000)
RoundScore2(x)  == RoundHalfEven(x, ScoreScale \div 100) * (ScoreScale \div 100)

\* CONDITION_SCORES.get(overall_condition, 7.0)
ConditionScore(condition) ==
    CASE condition = "excellent" -> 95 * (ScoreScale \div 10)
      [] condition = "very good" -> 85 * (ScoreScale \div 10)
      [] condition = "good"      -> 70 * (ScoreScale \div 10)
      [] condition = "fair"      -> 50 * (ScoreScale \div 10)
      [] condition = "poor"      -> 30 * (ScoreScale \div 10)
      [] condition = "damaged"   -> 20 * (ScoreScale \div 10)
      [] condition = "broken"    -> 10 * (ScoreScale \div 10)
      [] OTHER                   -> 70 * (ScoreScale \div 10)

\* SEVERITY_WEIGHTS.get(severity, 0.02)
SeverityWeight(severity) ==
    CASE severity = "minor"    -> 2 * (ImpactScale \div 100)
      [] severity = "moderate" -> 5 * (ImpactScale \div 100)
      [] severity = "severe"   -> 10 * (ImpactScale \div 100)
      [] severity = "critical" -> 15 * (ImpactScale \div 100)
      [] OTHER                 -> 2 * (ImpactScale \div 100)

\* _create_issue_entry
CreateIssueEntry(damage_type, view, details) ==
    LET severity == Lower(Get(details.severity, "minor"))
    IN  [ type     |-> Some(LowerStr(RStripS(damage_type))),
          severity |-> Some(severity),
          location |-> Some(<<Lower(view), Get(details.location, "")>>),
          impact   |-> Some(SeverityWeight(severity)),
          view     |-> Some(view) ]

\* worst to best
ConditionPriority ==
    <<"broken", "damaged", "poor", "fair", "good", "very good", "excellent">>

\* variant: the condition of the first view decides
DetermineOverallConditionFirstView(conditions) ==
    IF conditions = <<>> THEN "good"
    ELSE IF \E i \in 1..Len(ConditionPriority) : ConditionPriority[i] = conditions[1]
    THEN conditions[1]
    ELSE "good"

\* _determine_overall_condition
DetermineOverallCondition(conditions) ==
    LET present == {i \in 1..Len(ConditionPriority) :
                       \E j \in 1..Len(conditions) : conditions[j] = ConditionPriority[i]}
    IN  IF conditions = <<>> \/ present = {} THEN "good"
        ELSE ConditionPriority[CHOOSE i \in present : \A k \in present : i <= k]

\* deductions.get(severity, 0.2) in _adjust_score_for_issues
ScoreDeduction(issue) ==
    LET severity == Get(issue.severity, "minor")
    IN  CASE severity = "critical" -> 15 * (ScoreScale \div 10)
          [] severity = "severe"   -> 10 * (ScoreScale \div 10)
          [] severity = "moderate" -> 5 * (ScoreScale \div 10)
          [] severity = "minor"    -> 2 * (ScoreScale \div 10)
          [] OTHER                 -> 2 * (ScoreScale \div 10)

\* variant: no minimum score
AdjustScoreNoFloor(base_score, issues) ==
    IF issues = <<>> THEN base_score
    ELSE base_score - SumSeq([i \in 1..Len(issues) |-> ScoreDeduction(issues[i])])

\* _adjust_score_for_issues
AdjustScoreForIssues(base_score, issues) ==
    IF issues = <<>> THEN base_score
    ELSE Max(1 * ScoreScale, base_score - SumSeq([i \in 1..Len(issues) |-> ScoreDeduction(issues[i])]))

\* _calculate_severity_distribution
SeverityDistribution(issues) ==
    [ sev \in {"minor", "moderate", "severe", "critical"} |->
        Cardinality({i \in 1..Len(issues) : Get(issues[i].severity, "minor") = sev}) ]

IssueImpact(issue) == Get(issue.impact, 2 * (ImpactScale \div 100))

\* variant: no maximum impact
DiscountImpactNoCap(issues) ==
    IF issues = <<>> THEN 0 ELSE SumSeq([i \in 1..Len(issues) |-> IssueImpact(issues[i])])

\* _calculate_discount_impact
DiscountImpact(issues) ==
    IF issues = <<>> THEN 0
    ELSE Min(30 * (ImpactScale \div 100), SumSeq([i \in 1..Len(issues) |-> IssueImpact(issues[i])]))

\* _get_default_condition
DefaultCondition(usage) ==
    [ overall_condition     |-> Some("good"),
      condition_score       |-> Some(7 * ScoreScale),
      detected_issues       |-> Some(<<>>),
      severity_distribution |-> Some([sev \in {"minor", "moderate", "severe", "critical"} |-> 0]),
      total_discount_impact |-> Some(0),
      usage_years           |-> Some(usage),
      views_analyzed        |-> Some(<<>>),
      issues_count          |-> Some(0) ]

\* the issues of one view, in the iteration order of its damage_details
ViewIssues(view) ==
    [k \in 1..Len(view.damage_details) |->
        CreateIssueEntry(view.damage_details[k].damage_type, view.name,
                         view.damage_details[k].details)]

RECURSIVE AllIssues(_)
AllIssues(views) ==
    IF views = <<>> THEN <<>> ELSE ViewIssues(Head(views)) \o AllIssues(Tail(views))

\* evaluate_from_gemini
EvaluateFromGemini(gemini_analysis, usage) ==
    IF gemini_analysis = <<>> THEN DefaultCondition(usage)
    ELSE
      LET all_conditions == [i \in 1..Len(gemini_analysis) |->
                               Lower(Get(gemini_analysis[i].overall_condition, "good"))]
          all_issues        == AllIssues(gemini_analysis)
          overall_condition == DetermineOverallCondition(all_conditions)
          base_score        == ConditionScore(overall_condition)
      IN  [ overall_condition     |-> Some(overall_condition),
            condition_score       |-> Some(RoundScore2(AdjustScoreForIssues(base_score, all_issues))),
            detected_issues       |-> Some(all_issues),
            severity_distribution |-> Some(SeverityDistribution(all_issues)),
            total_discount_impact |-> Some(RoundImpact3(DiscountImpact(all_issues))),
            usage_years           |-> Some(usage),
            views_analyzed        |-> Some([i \in 1..Len(gemini_analysis) |-> gemini_analysis[i].name]),
            issues_count          |-> Some(Len(all_issues)) ]

----------------------------------------------------------------------------
(* PriceDatabase, PriceCache, PriceSearchEngine *)
(* A string argument is a sequence of characters; None and the empty       *)
(* string are both the empty sequence (the code only tests their truth).   *)

IsAlnum(c) == c \in {"a", "b", "c", "x", "A", "B", "C", "X", "1"}

ReplaceChar(s, from, to) == [i \in 1..Len(s) |-> IF s[i] = from THEN to ELSE s[i]]

RECURSIVE FilterKeyChars(_)
FilterKeyChars(s) ==
    IF s = <<>> THEN <<>>
    ELSE IF IsAlnum(Head(s)) \/ Head(s) = "_"
         THEN <<Head(s)>> \o FilterKeyChars(Tail(s))
         ELSE FilterKeyChars(Tail(s))

\* PriceDatabase._generate_key
DbGenerateKey(brand, model) ==
    FilterKeyChars(ReplaceChar(ReplaceChar(LowerStr(brand \o <<"_">> \o model),
                                           " ", "_"), "-", "_"))

\* PriceDatabase.get_price
DbGetPrice(db, brand, model) ==
    LET key == DbGenerateKey(brand, model)
    IN  IF key \in DOMAIN db
        THEN Some([price |-> db[key].price, source |-> "Database"])
        ELSE None

\* PriceCache._generate_key
CacheGenerateKey(brand, model, category) ==
    LET key == LowerStr(brand) \o <<"_">> \o LowerStr(model)
    IN  ReplaceChar(IF category # <<>> THEN key \o <<"_">> \o LowerStr(category) ELSE key,
                    " ", "_")

\* PriceCache.expiry_days
ExpiryDays == 7

RemoveKey(f, k) == [x \in DOMAIN f \ {k} |-> f[x]]
PutKey(f, k, v) == [x \in DOMAIN f \cup {k} |-> IF x = k THEN v ELSE f[x]]

\* variant: no expiry check
CacheGetNeverExpires(c, file, t, brand, model, category) ==
    LET key == CacheGenerateKey(brand, model, category)
    IN  IF key \notin DOMAIN c
        THEN [value |-> None, outcome |-> "miss", cache |-> c, cache_file |-> file]
        ELSE [value |-> Some(c[key].price_data), outcome |-> "hit",
              cache |-> c, cache_file |-> file]

\* variant: an expired entry is dropped from memory without saving the file
CacheGetEvictsWithoutSave(c, file, t, brand, model, category) ==
    LET key == CacheGenerateKey(brand, model, category)
    IN  IF key \notin DOMAIN c
        THEN [value |-> None, outcome |-> "miss", cache |-> c, cache_file |-> file]
        ELSE IF t - c[key].timestamp > ExpiryDays
        THEN [value |-> None, outcome |-> "expired",
              cache |-> RemoveKey(c, key), cache_file |-> file]
        ELSE [value |-> Some(c[key].price_data), outcome |-> "hit",
              cache |-> c, cache_file |-> file]

\* PriceCache.get: the returned value, whether the key was absent ("miss"),
\* too old ("expired") or served ("hit"), and the cache and its file afterwards
CacheGet(c, file, t, brand, model, category) ==
    LET key == CacheGenerateKey(brand, model, category)
    IN  IF key \notin DOMAIN c
        THEN [value |-> None, outcome |-> "miss", cache |-> c, cache_file |-> file]
        ELSE IF t - c[key].timestamp > ExpiryDays
        THEN [value |-> None, outcome |-> "expired",
              cache |-> RemoveKey(c, key), cache_file |-> RemoveKey(c, key)]
        ELSE [value |-> Some(c[key].price_data), outcome |-> "hit",
              cache |-> c, cache_file |-> file]

\* PriceCache.set followed by _save_cache
CacheSet(c, t, brand, model, price_data, category) ==
    LET key == CacheGenerateKey(brand, model, category)
        new == PutKey(c, key, [timestamp |-> t, price_data |-> price_data])
    IN  [cache |-> new, cache_file |-> new]

\* PriceSearchEngine.create_report on no results (also: no API key, failed request)
SearchNotFound == [price |-> None, source |-> "Not Found", total_results |-> 0]

\* PriceSearchEngine.create_report on results with median price p
SearchFound(p) == [price |-> Some(p), source |-> "Egyptian Store", total_results |-> 1]

\* Python truth of an optional number: None and 0 are false
Truthy(opt) == opt # <<>> /\ opt[1] # 0

----------------------------------------------------------------------------
(* PriceCalculator: reference price resolution *)

Tier(name, outcome) == [tier |-> name, outcome |-> outcome]

\* variant: the cache is tried before the database
GetReferencePriceCacheFirst(db, c, file, t, useweb, brand, model, category, search_result) ==
    LET db_price == DbGetPrice(db, brand, model)
        got      == CacheGet(c, file, t, brand, model, category)
        set      == CacheSet(got.cache, t, brand, model, search_result, category)
    IN  IF useweb /\ got.value # None
        THEN [ data |-> Some([price |-> got.value[1].price, source |-> "cache"]),
               cache |-> got.cache, cache_file |-> got.cache_file,
               consulted |-> <<Tier("cache", "hit")>> ]
        ELSE IF db_price # None /\ db_price[1].price # 0
        THEN [ data |-> Some([price |-> Some(db_price[1].price), source |-> "database"]),
               cache |-> c, cache_file |-> file,
               consulted |-> <<Tier("cache", "miss"), Tier("database", "hit")>> ]
        ELSE IF ~useweb
        THEN [ data |-> None, cache |-> c, cache_file |-> file,
               consulted |-> <<Tier("database", "miss")>> ]
        ELSE IF Truthy(search_result.price)
        THEN [ data |-> Some([price |-> search_result.price, source |-> "web_search"]),
               cache |-> set.cache, cache_file |-> set.cache_file,
               consulted |-> <<Tier("cache", got.outcome), Tier("database", "miss"),
                               Tier("web_search", "hit")>> ]
        ELSE [ data |-> None, cache |-> got.cache, cache_file |-> got.cache_file,
               consulted |-> <<Tier("cache", got.outcome), Tier("database", "miss"),
                               Tier("web_search", "miss")>> ]

\* variant: the search result is not written to the cache
GetReferencePriceNoWriteBack(db, c, file, t, useweb, brand, model, category, search_result) ==
    LET db_price == DbGetPrice(db, brand, model)
        got      == CacheGet(c, file, t, brand, model, category)
    IN  IF db_price # None /\ db_price[1].price # 0
        THEN [ data |-> Some([price |-> Some(db_price[1].price), source |-> "database"]),
               cache |-> c, cache_file |-> file,
               consulted |-> <<Tier("database", "hit")>> ]
        ELSE IF ~useweb
        THEN [ data |-> None, cache |-> c, cache_file |-> file,
               consulted |-> <<Tier("database", "miss")>> ]
        ELSE IF got.value # None
        THEN [ data |-> Some([price |-> got.value[1].price, source |-> "cache"]),
               cache |-> got.cache, cache_file |-> got.cache_file,
               consulted |-> <<Tier("database", "miss"), Tier("cache", "hit")>> ]
        ELSE IF Truthy(search_result.price)
        THEN [ data |-> Some([price |-> search_result.price, source |-> "web_search"]),
               cache |-> got.cache, cache_file |-> got.cache_file,
               consulted |-> <<Tier("database", "miss"), Tier("cache", got.outcome),
                               Tier("web_search", "hit")>> ]
        ELSE [ data |-> None, cache |-> got.cache, cache_file |-> got.cache_file,
               consulted |-> <<Tier("database", "miss"), Tier("cache", got.outcome),
                               Tier("web_search", "miss")>> ]

\* variant: the cache is looked up (and an expired entry removed) before the
\* database price is returned
GetReferencePriceEvictsOnDatabaseHit(db, c, file, t, useweb, brand, model, category, search_result) ==
    LET db_price == DbGetPrice(db, brand, model)
        got      == CacheGet(c, file, t, brand, model, category)
        set      == CacheSet(got.cache, t, brand, model, search_result, category)
    IN  IF db_price # None /\ db_price[1].price # 0
        THEN [ data |-> Some([price |-> Some(db_price[1].price), source |-> "database"]),
               cache |-> IF useweb THEN got.cache ELSE c,
               cache_file |-> IF useweb THEN got.cache_file ELSE file,
               consulted |-> <<Tier("database", "hit")>> ]
        ELSE IF ~useweb
        THEN [ data |-> None, cache |-> c, cache_file |-> file,
               consulted |-> <<Tier("database", "miss")>> ]
        ELSE IF got.value # None
        THEN [ data |-> Some([price |-> got.value[1].price, source |-> "cache"]),
               cache |-> got.cache, cache_file |-> got.cache_file,
               consulted |-> <<Tier("database", "miss"), Tier("cache", "hit")>> ]
        ELSE IF Truthy(search_result.price)
        THEN [ data |-> Some([price |-> search_result.price, source |-> "web_search"]),
               cache |-> set.cache, cache_file |-> set.cache_file,
               consulted |-> <<Tier("database", "miss"), Tier("cache", got.outcome),
                               Tier("web_search", "hit")>> ]
        ELSE [ data |-> None, cache |-> got.cache, cache_file |-> got.cache_file,
               consulted |-> <<Tier("database", "miss"), Tier("cache", got.outcome),
                               Tier("web_search", "miss")>> ]

\* _get_reference_price: the returned dict (None when no tier has a price), the
\* cache and its file afterwards, and the tiers consulted, in order, each with
\* its outcome.  search_result is what search_product_price answers if called.
GetReferencePrice(db, c, file, t, useweb, brand, model, category, search_result) ==
    LET db_price == DbGetPrice(db, brand, model)
        got      == CacheGet(c, file, t, brand, model, category)
        set      == CacheSet(got.cache, t, brand, model, search_result, category)
    IN  IF db_price # None /\ db_price[1].price # 0
        THEN [ data |-> Some([price |-> Some(db_price[1].price), source |-> "database"]),
               cache |-> c, cache_file |-> file,
               consulted |-> <<Tier("database", "hit")>> ]
        ELSE IF ~useweb
        THEN [ data |-> None, cache |-> c, cache_file |-> file,
               consulted |-> <<Tier("database", "miss")>> ]
        ELSE IF got.value # None
        THEN [ data |-> Some([price |-> got.value[1].price, source |-> "cache"]),
               cache |-> got.cache, cache_file |-> got.cache_file,
               consulted |-> <<Tier("database", "miss"), Tier("cache", "hit")>> ]
        ELSE IF Truthy(search_result.price)
        THEN [ data |-> Some([price |-> search_result.price, source |-> "web_search"]),
               cache |-> set.cache, cache_file |-> set.cache_file,
               consulted |-> <<Tier("database", "miss"), Tier("cache", got.outcome),
                               Tier("web_search", "hit")>> ]
        ELSE [ data |-> None, cache |-> got.cache, cache_file |-> got.cache_file,
               consulted |-> <<Tier("database", "miss"), Tier("cache", got.outcome),
                               Tier("web_search", "miss")>> ]

\* calculate_used_price: the return value (None is <<>>) and the effect on the cache
CalculateUsedPrice(db, c, file, t, useweb, req, cv, search_result, ties) ==
    IF req.reference_price = None
    THEN LET r == GetReferencePrice(db, c, file, t, useweb,
                                    req.brand, req.model, req.category, search_result)
         IN  [ result     |-> IF r.data = None \/ r.data[1].price = None
                              THEN None
                              ELSE Some(PricingResult(req, cv, r.data[1].price[1],
                                                      r.data[1].source, ties)),
               cache      |-> r.cache,
               cache_file |-> r.cache_file,
               consulted  |-> r.consulted ]
    ELSE [ result     |-> Some(PricingResult(req, cv, req.reference_price[1], "manual", ties)),
           cache      |-> c,
           cache_file |-> file,
           consulted  |-> <<>> ]

\* a tie direction is chosen only for a rounding whose value lies midway
TiesMatter(ties, cv, pricing) ==
    /\ ties.damage =>
          IsMidway(DamageDepreciation(cv) % (PctScale \div 100), PctScale \div 100)
    /\ ties.total =>
          IsMidway(TotalDepreciation(cv) % (PctScale \div 100), PctScale \div 100)
    /\ ties.price =>
          /\ pricing # None
          /\ LET x == UsedPriceUnrounded(pricing[1].reference_new_price, TotalDepreciation(cv))
             IN  IsMidway(x.r, x.d)

\* variant: a missing price is not told apart from a pricing result
CalculatePriceResponseAlways200(req, cv_output, pricing_data) ==
    IF req.brand = <<>> \/ req.model = <<>> \/ cv_output = None
    THEN [code |-> 400, status |-> "error", instruction |-> FALSE, body |-> None]
    ELSE [code |-> 200, status |-> "ok", instruction |-> FALSE, body |-> pricing_data]

\* POST /calculate-price: the response for the calculator's return value
CalculatePriceResponse(req, cv_output, pricing_data) ==
    IF req.brand = <<>> \/ req.model = <<>> \/ cv_output = None
    THEN [code |-> 400, status |-> "error", instruction |-> FALSE, body |-> None]
    ELSE IF pricing_data = None
    THEN [code |-> 404, status |-> "price_not_found", instruction |-> TRUE, body |-> None]
    ELSE [code |-> 200, status |-> "ok", instruction |-> FALSE, body |-> pricing_data]

----------------------------------------------------------------------------
(* Bounds and input sets *)

MaxIssues         == 3     \* damage items in one raw analysis, over all views
MaxUsageTenths    == 100   \* largest usage_years given to the calculator, in tenths
MaxFallbackIssues == 2     \* longest detected_issues list given to the calculator
MaxTime           == 8     \* last day of the clock

\* the views of one raw analysis, in the order they are analysed
ViewNames == <<"Front", "Back">>

RawConditions ==
    {None} \cup {Some(c) : c \in {"excellent", "fair", "POOR", "broken", "mint"}}

RawItems ==
    { [damage_type |-> <<"s","c","r","a","t","c","h","e","s">>,
       details |-> [severity |-> Some("minor"), location |-> Some("top-left")]],
      [damage_type |-> <<"c","r","a","c","k","s">>,
       details |-> [severity |-> Some("moderate"), location |-> Some("center")]],
      [damage_type |-> <<"d","e","n","t","s">>,
       details |-> [severity |-> Some("severe"), location |-> None]],
      [damage_type |-> <<"c","r","a","c","k","s">>,
       details |-> [severity |-> Some("Critical"), location |-> Some("center")]],
      [damage_type |-> <<"g","l","a","s","s">>,
       details |-> [severity |-> Some("deep"), location |-> Some("edge")]],
      [damage_type |-> <<"d","e","n","t","s">>,
       details |-> [severity |-> None, location |-> Some("edge")]] }

UsageArgs == {15}

\* a cv_data dict; a missing key is None
CvData(usage, condition, impact, issues) ==
    [ overall_condition     |-> condition,
      condition_score       |-> None,
      detected_issues       |-> issues,
      severity_distribution |-> None,
      total_discount_impact |-> impact,
      usage_years           |-> usage,
      views_analyzed        |-> None,
      issues_count          |-> None ]

IssueInput(severity) ==
    [type |-> Some(<<"c","r","a","c","k">>), severity |-> severity,
     location |-> None, impact |-> None, view |-> None]

SeverityInputs ==
    {None} \cup {Some(v) : v \in {"minor", "moderate", "severe", "critical", "deep"}}

IssueListInputs ==
    UNION { [1..n -> {IssueInput(v) : v \in SeverityInputs}] : n \in 0..MaxFallbackIssues }

\* usage_years on both sides of every breakpoint, and a long usage
UsageInputs ==
    {None} \cup {Some(u) : u \in {0, 4, 5, 9, 10, 19, 20, 29, 30, MaxUsageTenths}}

ConditionInputs ==
    {None} \cup {Some(c) : c \in {"excellent", "very good", "good", "fair", "poor",
                                  "damaged", "broken", "POOR", "mint"}}

\* total_discount_impact and detected_issues of a cv_data given to the calculator
DamageInputs ==
    ({None, Some(0)} \X ({None} \cup {Some(l) : l \in IssueListInputs}))
    \cup ({Some(2000), Some(12344), Some(30000), Some(-50000)}
          \X {None, Some(<<IssueInput(Some("critical"))>>)})
    \cup ({Some(15), Some(12345), Some(50000)} \X {None})

CvInputs ==
    { CvData(u, c, d[1], d[2]) : u \in UsageInputs, c \in ConditionInputs, d \in DamageInputs }

\* reference prices given by the caller, in cents
ManualPrices == {1, 33333, 100000}

\* the cv_data of scenario 1: 0.8 years, good, one minor issue
CvScenario ==
    [ CvData(Some(8), Some("good"), Some(2000), Some(<<IssueInput(Some("minor"))>>))
        EXCEPT !.issues_count = Some(1) ]

Products ==
    { [brand |-> <<"a">>, model |-> <<"x">>, category |-> <<>>],
      [brand |-> <<"A">>, model |-> <<"x">>, category |-> <<"c">>] }

CallRequests ==
    { [brand |-> p.brand, model |-> p.model, category |-> p.category, reference_price |-> None] :
        p \in Products }
    \cup { [brand |-> <<"a">>, model |-> <<"x">>, category |-> <<>>,
            reference_price |-> Some(100000)] }

\* a request body without brand
BadRequest ==
    [brand |-> <<>>, model |-> <<"x">>, category |-> <<>>, reference_price |-> None]

\* possible contents of data/price_database.json
Databases ==
    { <<>>,
      [k \in {DbGenerateKey(<<"a">>, <<"x">>)} |-> [price |-> 90000]],
      [k \in {DbGenerateKey(<<"a">>, <<"x">>)} |-> [price |-> 0]] }

\* possible contents of data/price_cache.json when the process starts: nothing,
\* or an entry that an earlier run has just written
StoredCaches ==
    { <<>>,
      [k \in {CacheGenerateKey(<<"a">>, <<"x">>, <<>>)} |->
          [timestamp |-> 0, price_data |-> SearchFound(80000)]] }

\* what search_product_price can answer
SearchResults == {SearchNotFound, SearchFound(80000), SearchFound(85000)}

\* the answers that matter to a call: a call with a reference price never searches
SearchResultsFor(req) ==
    IF req.reference_price = None /\ req.brand # <<>> THEN SearchResults ELSE {SearchNotFound}

NoRequest == [brand |-> <<>>, model |-> <<>>, category |-> <<>>, reference_price |-> None]

----------------------------------------------------------------------------
(* Condition evaluation: ConditionEvaluator.evaluate_from_gemini on a raw   *)
(* analysis that grows by one view or one damage item per call              *)

TotalItems(views) == SumSeq([i \in 1..Len(views) |-> Len(views[i].damage_details)])

InitIdleCalc ==
    /\ cv_data = CvScenario
    /\ request = NoRequest
    /\ result = None
    /\ consulted = <<>>
    /\ response = None
    /\ prices = <<>>
    /\ cache = <<>>
    /\ cache_file = <<>>
    /\ now = 0
    /\ use_web_search = FALSE

InitIdleEval ==
    /\ analysis = <<>>
    /\ usage_years = 15
    /\ summary = EvaluateFromGemini(<<>>, 15)

InitEval ==
    /\ analysis = <<>>
    /\ usage_years \in UsageArgs
    /\ summary = EvaluateFromGemini(<<>>, usage_years)
    /\ InitIdleCalc

\* evaluate_from_gemini after one more view has been analysed
EvaluateNewView ==
    \E c \in RawConditions :
        /\ Len(analysis) < Len(ViewNames)
        /\ analysis' = Append(analysis, [name |-> ViewNames[Len(analysis) + 1],
                                         overall_condition |-> c,
                                         damage_details |-> <<>>])
        /\ summary' = EvaluateFromGemini(analysis', usage_years)
        /\ UNCHANGED <<usage_years, callVars, storeVars>>

\* evaluate_from_gemini after one more damage item has been found in a view
EvaluateNewIssue ==
    \E i \in 1..Len(analysis), item \in RawItems :
        /\ TotalItems(analysis) < MaxIssues
        /\ analysis' = [analysis EXCEPT ![i].damage_details = Append(@, item)]
        /\ summary' = EvaluateFromGemini(analysis', usage_years)
        /\ UNCHANGED <<usage_years, callVars, storeVars>>

NextEval == EvaluateNewView \/ EvaluateNewIssue

SpecEval == InitEval /\ [][NextEval]_vars

----------------------------------------------------------------------------
(* Price arithmetic: calculate_used_price with a caller-supplied price *)

InitPrice ==
    /\ InitIdleEval
    /\ cv_data \in CvInputs \cup {CvScenario}
    /\ request \in { [brand |-> <<"a">>, model |-> <<"x">>, category |-> <<>>,
                       reference_price |-> Some(p)] : p \in ManualPrices }
    /\ result = None
    /\ consulted = <<>>
    /\ response = None
    /\ prices = <<>>
    /\ cache = <<>>
    /\ cache_file = <<>>
    /\ now = 0
    /\ use_web_search = FALSE

\* calculate_used_price(brand, model, cv_data, reference_price)
ApplyCalculateUsedPrice ==
    /\ result = None
    /\ \E ties \in FloatTies :
       LET r == CalculateUsedPrice(prices, cache, cache_file, now, use_web_search,
                                    request, cv_data, SearchNotFound, ties)
       IN  /\ TiesMatter(ties, cv_data, r.result)
           /\ result' = r.result
           /\ consulted' = r.consulted
           /\ cache' = r.cache
           /\ cache_file' = r.cache_file
    /\ UNCHANGED <<evalVars, cv_data, request, response, prices, now, use_web_search>>

NextPrice == ApplyCalculateUsedPrice

SpecPrice == InitPrice /\ [][NextPrice]_vars

----------------------------------------------------------------------------
(* Reference price resolution: calls of calculate_used_price, directly and *)
(* through POST /calculate-price, against the database, cache and search   *)

Init ==
    /\ InitIdleEval
    /\ cv_data = CvScenario
    /\ request = NoRequest
    /\ result = None
    /\ consulted = <<>>
    /\ response = None
    /\ prices \in Databases
    /\ use_web_search \in BOOLEAN
    /\ cache_file \in StoredCaches
    /\ cache = IF use_web_search THEN cache_file ELSE <<>>
    /\ now = 0

\* time passes
Tick ==
    /\ now < MaxTime
    /\ now' = now + 1
    /\ UNCHANGED <<evalVars, callVars, prices, cache, cache_file, use_web_search>>

\* calculate_used_price called by CVIntegrationService, whose calculator is
\* built without web search when no SERPAPI key is configured
CallCalculateUsedPrice ==
    \E req \in CallRequests, ties \in FloatTies :
        LET r == CalculateUsedPrice(prices, cache, cache_file, now, use_web_search,
                                    req, cv_data, SearchNotFound, ties)
        IN  /\ ~use_web_search
            /\ TiesMatter(ties, cv_data, r.result)
            /\ request' = req
            /\ result' = r.result
            /\ consulted' = r.consulted
            /\ cache' = r.cache
            /\ cache_file' = r.cache_file
            /\ response' = None
            /\ UNCHANGED <<evalVars, cv_data, prices, now, use_web_search>>

\* POST /calculate-price, whose calculator is built with web search
PostCalculatePrice ==
    \E req \in CallRequests \cup {BadRequest} :
      \E search_result \in SearchResultsFor(req) :
        /\ use_web_search
        /\ IF req.brand = <<>> \/ req.model = <<>>
           THEN /\ request' = req
                /\ result' = None
                /\ consulted' = <<>>
                /\ response' = Some(CalculatePriceResponse(req, Some(cv_data), None))
                /\ UNCHANGED <<evalVars, cv_data, storeVars>>
           ELSE \E ties \in FloatTies :
                LET r == CalculateUsedPrice(prices, cache, cache_file, now, use_web_search,
                                            req, cv_data, search_result, ties)
                IN  /\ TiesMatter(ties, cv_data, r.result)
                    /\ request' = req
                    /\ result' = r.result
                    /\ consulted' = r.consulted
                    /\ cache' = r.cache
                    /\ cache_file' = r.cache_file
                    /\ response' = Some(CalculatePriceResponse(req, Some(cv_data), r.result))
                    /\ UNCHANGED <<evalVars, cv_data, prices, now, use_web_search>>

Next == Tick \/ CallCalculateUsedPrice \/ PostCalculatePrice

Spec == Init /\ [][Next]_vars

----------------------------------------------------------------------------
(* Properties *)

Pricing == result[1]
SummaryImpact == Get(summary.total_discount_impact, 0)
SummaryScore  == Get(summary.condition_score, 0)
SummaryIssues == Get(summary.detected_issues, <<>>)

\* the last operation was a call of calculate_used_price that had to resolve
\* the reference price itself
ResolvingCall(req) == req.brand # <<>> /\ req.model # <<>> /\ req.reference_price = None

RequestKey(req) == CacheGenerateKey(req.brand, req.model, req.category)

\* the database has a price for the product of req
DatabaseHas(req) ==
    /\ DbGenerateKey(req.brand, req.model) \in DOMAIN prices
    /\ prices[DbGenerateKey(req.brand, req.model)].price # 0

TiersOf(trace) == [i \in 1..Len(trace) |-> trace[i].tier]

IsPrefix(a, b) == Len(a) <= Len(b) /\ a = SubSeq(b, 1, Len(a))

\* C1 (as claimed): the used price of every pricing result equals
\* round(reference_new_price * (1 - discount_percentage / 100), 2) for the
\* discount_percentage reported in the same result.
C1_UsedPriceMatchesReportedDiscount ==
    result # None =>
        \E up \in BOOLEAN :
            Pricing.calculated_used_price
                = UsedPrice(Pricing.reference_new_price, Pricing.discount_percentage, up)

\* C2 (as claimed): the reported discount_percentage is between 0 and 85, and
\* the used price is strictly positive when the reference price is.
C2_DiscountWithinCap ==
    result # None =>
        /\ 0 <= Pricing.discount_percentage
        /\ Pricing.discount_percentage <= 85 * PctScale
        /\ (Pricing.reference_new_price > 0 => Pricing.calculated_used_price > 0)

\* C3: total_discount_impact of every evaluation lies in [0.0, 0.30], and the
\* evaluation after one more damage item has been added to a view (the views
\* and the other items unchanged) has a total_discount_impact at least as
\* large as the one before.
C3_ImpactCappedAndMonotone ==
    /\ [](0 <= SummaryImpact /\ SummaryImpact <= 30 * (ImpactScale \div 100))
    /\ [][ (Len(analysis') = Len(analysis) /\ TotalItems(analysis') = TotalItems(analysis) + 1)
            => Get(summary'.total_discount_impact, 0) >= SummaryImpact ]_vars

\* C3 witness: three items whose weights sum to more than 0.30, reported as 0.30
C3_Witness ==
    /\ Len(SummaryIssues) = 3
    /\ SumSeq([i \in 1..Len(SummaryIssues) |-> IssueImpact(SummaryIssues[i])]) > 30 * (ImpactScale \div 100)
    /\ SummaryImpact = 30 * (ImpactScale \div 100)

\* the deductions of C4, counted from the severities of the detected issues
C4_Deduction ==
    LET n(sev) == Cardinality({i \in 1..Len(SummaryIssues) :
                                  SummaryIssues[i].severity = Some(sev)})
    IN  15 * (ScoreScale \div 10) * n("critical")
        + 10 * (ScoreScale \div 10) * n("severe")
        + 5 * (ScoreScale \div 10) * n("moderate")
        + 2 * (ScoreScale \div 10)
            * (Len(SummaryIssues) - n("critical") - n("severe") - n("moderate"))

\* C4: the condition_score of every evaluation is at least 1.0, and it is the
\* base score of the overall condition minus 1.5 per critical, 1.0 per severe,
\* 0.5 per moderate and 0.2 per other issue, floored at 1.0.
C4_ScoreFlooredAtOne ==
    /\ SummaryScore >= 1 * ScoreScale
    /\ SummaryScore
         = Max(1 * ScoreScale,
               ConditionScore(Get(summary.overall_condition, "good")) - C4_Deduction)

\* C4 witness: the deductions take the score below 1.0 and 1.0 is reported
C4_Witness ==
    /\ SummaryIssues # <<>>
    /\ ConditionScore(Get(summary.overall_condition, "good")) - C4_Deduction < 1 * ScoreScale
    /\ SummaryScore = 1 * ScoreScale

\* the usage step of C5 for u tenths of a year
C5_Step(u) ==
    IF u < 5 THEN 10 ELSE IF u < 10 THEN 15 ELSE IF u < 20 THEN 25
    ELSE IF u < 30 THEN 35 ELSE 45

\* C5: the usage component of a pricing result is 10, 15, 25, 35 or 45 by the
\* step usage_years falls in (a breakpoint belonging to the higher step), and
\* no longer usage gives a smaller usage component.
C5_UsageDepreciationMonotone ==
    result # None =>
        LET u == Get(cv_data.usage_years, 1 * YearScale)
        IN  /\ Pricing.discount_breakdown.usage = C5_Step(u) * PctScale
            /\ \A u2 \in 0..MaxUsageTenths :
                  u <= u2 =>
                    Pricing.discount_breakdown.usage
                      <= UsageDepreciation([cv_data EXCEPT !.usage_years = Some(u2)])

\* C5 witness: exactly 3.0 years of usage priced with the 45 step
C5_Witness ==
    /\ result # None
    /\ cv_data.usage_years = Some(3 * YearScale)
    /\ Pricing.discount_breakdown.usage = 45 * PctScale

\* C6: the tiers a call consults are a prefix of database, cache, web search
\* (none with a caller-supplied price); only the last consulted tier can have
\* a hit and it is the source of the result; and when the database has a price
\* for the product, that price is used with source 'database' and neither the
\* cache nor the web search is consulted, whatever the cache holds.
C6_TierOrder ==
    /\ IsPrefix(TiersOf(consulted), <<"database", "cache", "web_search">>)
    /\ \A i \in 1..Len(consulted) :
          consulted[i].outcome = "hit" =>
            /\ i = Len(consulted)
            /\ result # None
            /\ Pricing.source = consulted[i].tier
    /\ (result # None /\ request.reference_price # None) =>
          (consulted = <<>> /\ Pricing.source = "manual"
             /\ Pricing.reference_new_price = request.reference_price[1])
    /\ (ResolvingCall(request) /\ result # None) =>
          (consulted # <<>> /\ consulted[Len(consulted)].outcome = "hit")
    /\ (ResolvingCall(request) /\ DatabaseHas(request)) =>
          /\ result # None
          /\ Pricing.source = "database"
          /\ Pricing.reference_new_price
                = prices[DbGenerateKey(request.brand, request.model)].price
          /\ TiersOf(consulted) = <<"database">>

\* C6 witness: the product is in the database and in a fresh cache entry with
\* another price, and the database price has been used
C6_Witness ==
    /\ result # None
    /\ ResolvingCall(request) /\ DatabaseHas(request)
    /\ RequestKey(request) \in DOMAIN cache
    /\ now - cache[RequestKey(request)].timestamp <= ExpiryDays
    /\ cache[RequestKey(request)].price_data.price # Some(Pricing.reference_new_price)
    /\ Pricing.source = "database"

\* a step that is a call resolving the price of req against a cache entry of
\* its key, the database having no price for it
CacheLookupStep(req) ==
    /\ now' = now
    /\ ResolvingCall(req)
    /\ use_web_search
    /\ ~DatabaseHas(req)
    /\ RequestKey(req) \in DOMAIN cache

\* C7: a call that finds a cache entry older than expiry_days does not serve
\* it: the entry is removed from the cache and the file, the web search is
\* consulted, and the entry of that key afterwards, if any, is the one the web
\* search has just written; an entry of age at most expiry_days is served.
C7_ExpiredEntryIsMiss ==
    [][ CacheLookupStep(request') =>
          LET key == RequestKey(request')
          IN  IF now - cache[key].timestamp > ExpiryDays
              THEN /\ \E i \in 1..Len(consulted') : consulted'[i].tier = "web_search"
                   /\ (result' # None => result'[1].source = "web_search")
                   /\ (result' = None <=> key \notin DOMAIN cache')
                   /\ (key \in DOMAIN cache' =>
                         /\ cache'[key].timestamp = now
                         /\ cache'[key].price_data.price = Some(result'[1].reference_new_price))
                   /\ cache_file' = cache'
              ELSE /\ result' # None
                   /\ result'[1].source = "cache"
                   /\ Some(result'[1].reference_new_price) = cache[key].price_data.price
                   /\ key \in DOMAIN cache' ]_vars

\* C7 witness: an expired entry has been found and removed, and the web search
\* that followed found nothing
C7_Witness ==
    /\ ResolvingCall(request)
    /\ \E i \in 1..Len(consulted) :
          consulted[i].tier = "cache" /\ consulted[i].outcome = "expired"
    /\ RequestKey(request) \notin DOMAIN cache
    /\ RequestKey(request) \notin DOMAIN cache_file
    /\ result = None

\* C8: after a call without reference price for a product that the database
\* has no price for and the cache has no entry for (the web search, if any,
\* having found nothing), the calculator has returned None, every tier it
\* consulted has missed, and the response of POST /calculate-price is 404 with
\* status 'price_not_found' and the instruction to supply reference_price.
C8_NotFound ==
    ( /\ ResolvingCall(request)
      /\ ~DatabaseHas(request)
      /\ RequestKey(request) \notin DOMAIN cache )
    => /\ result = None
       /\ consulted # <<>>
       /\ \A i \in 1..Len(consulted) : consulted[i].outcome # "hit"
       /\ response # None =>
             /\ response[1].code = 404
             /\ response[1].status = "price_not_found"
             /\ response[1].instruction
             /\ response[1].body = None

\* C8 witness: database, cache and web search have all missed and the answer is 404
C8_Witness ==
    /\ ResolvingCall(request)
    /\ TiersOf(consulted) = <<"database", "cache", "web_search">>
    /\ \A i \in 1..Len(consulted) : consulted[i].outcome = "miss"
    /\ result = None
    /\ response # None
    /\ response[1].code = 404

\* C9: after a call resolved by the web search, the cache and its file hold an
\* entry under the key of that call with the price that was used; and a call
\* for a key whose entry is at most expiry_days old (the database having no
\* price) is resolved from the cache with the price of that entry, without
\* consulting the web search and without changing the cache.
C9_WebResultCached ==
    /\ []( (result # None /\ Pricing.source = "web_search") =>
              /\ RequestKey(request) \in DOMAIN cache
              /\ cache[RequestKey(request)].price_data.price
                    = Some(Pricing.reference_new_price)
              /\ cache[RequestKey(request)].timestamp <= now
              /\ cache_file = cache )
    /\ [][ (result' # None /\ result'[1].source = "web_search" /\ now' = now
              /\ <<request, result, cache>>' # <<request, result, cache>>)
            => cache'[RequestKey(request')].timestamp = now ]_vars
    /\ [][ (CacheLookupStep(request')
              /\ now - cache[RequestKey(request')].timestamp <= ExpiryDays)
            => /\ result' # None
               /\ result'[1].source = "cache"
               /\ Some(result'[1].reference_new_price)
                     = cache[RequestKey(request')].price_data.price
               /\ \A i \in 1..Len(consulted') : consulted'[i].tier # "web_search"
               /\ cache' = cache /\ cache_file' = cache_file ]_vars

\* C9 witness: a price served from an entry that a web search of this run wrote
\* on an earlier day
C9_Witness ==
    /\ result # None
    /\ Pricing.source = "cache"
    /\ cache[RequestKey(request)].timestamp >= 1
    /\ now > cache[RequestKey(request)].timestamp
    /\ Pricing.reference_new_price = cache[RequestKey(request)].price_data.price[1]

\* C10 (as claimed): the database is never modified and the cache changes only
\* in a call that the web search resolves.
C10_OnlyWebSearchChangesCache ==
    [][ /\ prices' = prices
        /\ (cache' # cache \/ cache_file' # cache_file) =>
              (result' # None /\ result'[1].source = "web_search") ]_vars

\* C10 (amended): the database is never modified; entries of other keys than
\* the one looked up never change; a call resolved from the caller, the
\* database or the cache changes neither the cache nor its file; a call ending
\* in not-found changes them only by removing the expired entry of its key.
C10_CacheChangesOnlyForLookedUpKey ==
    [][ /\ prices' = prices
        /\ \A k \in (DOMAIN cache \cup DOMAIN cache') \ {RequestKey(request')} :
              k \in DOMAIN cache /\ k \in DOMAIN cache' /\ cache'[k] = cache[k]
        /\ (result' # None /\ result'[1].source \in {"manual", "database", "cache"}) =>
              (cache' = cache /\ cache_file' = cache_file)
        /\ (result' = None /\ (cache' # cache \/ cache_file' # cache_file)) =>
              /\ RequestKey(request') \in DOMAIN cache
              /\ now - cache[RequestKey(request')].timestamp > ExpiryDays
              /\ cache' = RemoveKey(cache, RequestKey(request'))
              /\ cache_file' = cache' ]_vars

\* C10 witness: a call that ended in not-found has removed an expired entry
\* while the entry of another key is still in the cache
C10_Witness ==
    /\ ResolvingCall(request)
    /\ result = None
    /\ \E i \in 1..Len(consulted) :
          consulted[i].tier = "cache" /\ consulted[i].outcome = "expired"
    /\ RequestKey(request) \notin DOMAIN cache
    /\ DOMAIN cache # {}

----------------------------------------------------------------------------
(* Feature extraction and template text                                     *)
(*   FeatureExtractor   src/data_processing/feature_extractor.py            *)
(*   Config             src/utils/config.py                                 *)
(*   TemplateManager    src/nlp_engine/template_manager.py                  *)
(*   TextGenerator      NLP/src/nlp_engine/text_generator.py                *)
(* A text is a sequence of pieces, each piece a string; an issue type and a *)
(* location are labels here, and a confidence is in 1/ConfScale.            *)
(* A call either returns a value or raises.                                 *)

ConfScale == 10

Returned(v) == [raised |-> "none", value |-> v]
Raised(e)   == [raised |-> e, value |-> <<>>]

\* Config.get_severity_weight
GetSeverityWeight(severity) ==
    CASE severity = "minor"    -> 1
      [] severity = "moderate" -> 2
      [] severity = "severe"   -> 3
      [] OTHER                 -> 1

\* Config.get_issue_priority
GetIssuePriority(issue_type) ==
    CASE issue_type = "crack"         -> 5
      [] issue_type = "dent"          -> 4
      [] issue_type = "scratch"       -> 3
      [] issue_type = "discoloration" -> 2
      [] issue_type = "wear"          -> 1
      [] OTHER                        -> 0

\* score = priority * severity_weight * confidence, in 1/ConfScale
IssueScore(issue) ==
    GetIssuePriority(Get(issue.type, ""))
        * GetSeverityWeight(Get(issue.severity, "minor"))
        * Get(issue.confidence, 5 * (ConfScale \div 10))

\* variant: an element is placed ahead of the elements of equal score
RECURSIVE InsertScoredBeforeTies(_, _)
InsertScoredBeforeTies(sorted, x) ==
    IF sorted = <<>> THEN <<x>>
    ELSE IF Head(sorted).score > x.score
         THEN <<Head(sorted)>> \o InsertScoredBeforeTies(Tail(sorted), x)
         ELSE <<x>> \o sorted

\* list.sort(reverse=True, key=score) is stable: an element goes behind every
\* element whose score is not smaller
RECURSIVE InsertScored(_, _)
InsertScored(sorted, x) ==
    IF sorted = <<>> THEN <<x>>
    ELSE IF Head(sorted).score >= x.score
         THEN <<Head(sorted)>> \o InsertScored(Tail(sorted), x)
         ELSE <<x>> \o sorted

RECURSIVE SortScored(_)
SortScored(scored) ==
    IF scored = <<>> THEN <<>>
    ELSE InsertScored(SortScored(SubSeq(scored, 1, Len(scored) - 1)), scored[Len(scored)])

\* FeatureExtractor.prioritize_issues, for max_issues >= 0
PrioritizeIssues(cv, max_issues) ==
    LET issues == Get(cv.detected_issues, <<>>)
        scored_issues ==
            SortScored([i \in 1..Len(issues) |->
                           [score |-> IssueScore(issues[i]), issue |-> issues[i]]])
    IN  IF issues = <<>> THEN <<>>
        ELSE [i \in 1..Min(max_issues, Len(scored_issues)) |-> scored_issues[i].issue]

\* FeatureExtractor._get_most_critical_issue: None without issues
GetMostCriticalIssue(cv) ==
    LET issues == Get(cv.detected_issues, <<>>)
        scored_issues ==
            SortScored([i \in 1..Len(issues) |->
                           [score |-> IssueScore(issues[i]), issue |-> issues[i]]])
    IN  IF issues = <<>> THEN None ELSE Some(scored_issues[1].issue)

\* FeatureExtractor._analyze_severity_distribution
AnalyzeSeverityDistribution(cv) ==
    LET issues == Get(cv.detected_issues, <<>>)
    IN  [s \in {"minor", "moderate", "severe"} |->
            Cardinality({i \in 1..Len(issues) : Get(issues[i].severity, "minor") = s})]

\* the phrase tables of config/templates.json
Templates ==
    [ issue_phrases    |-> [p \in {<<"crack", "minor">>} |-> "a hairline crack"],
      location_phrases |-> [l \in {"top"} |-> "at the top"] ]

\* TemplateManager.get_issue_phrase
GetIssuePhrase(issue_type, severity) ==
    IF <<issue_type, severity>> \in DOMAIN Templates.issue_phrases
    THEN <<Templates.issue_phrases[<<issue_type, severity>>]>>
    ELSE <<severity, " ", issue_type>>

\* TemplateManager.get_location_phrase
GetLocationPhrase(location) ==
    IF location \in DOMAIN Templates.location_phrases
    THEN <<Templates.location_phrases[location]>>
    ELSE <<"on the ", location>>

\* issue['type'], issue['severity'], issue['location'] are all there
HasPhraseKeys(issue) ==
    issue.type # None /\ issue.severity # None /\ issue.location # None

\* TemplateManager.format_issue_description, for an issue with its three keys
FormatIssueDescription(issue) ==
    GetIssuePhrase(issue.type[1], issue.severity[1])
        \o <<" ">> \o GetLocationPhrase(issue.location[1])

\* sep.join(texts)
RECURSIVE Join(_, _)
Join(sep, texts) ==
    IF texts = <<>> THEN <<>>
    ELSE IF Len(texts) = 1 THEN texts[1]
    ELSE texts[1] \o <<sep>> \o Join(sep, Tail(texts))

\* variant: no comma before the closing "and"
FormatMultipleIssuesNoOxfordComma(issues) ==
    IF issues = <<>> THEN Returned(<<>>)
    ELSE IF \E i \in 1..Len(issues) : ~HasPhraseKeys(issues[i]) THEN Raised("KeyError")
    ELSE LET formatted_issues == [i \in 1..Len(issues) |-> FormatIssueDescription(issues[i])]
         IN  IF Len(issues) = 1 THEN Returned(formatted_issues[1])
             ELSE Returned(Join(", ", SubSeq(formatted_issues, 1, Len(formatted_issues) - 1))
                           \o <<" and ">> \o formatted_issues[Len(formatted_issues)])

\* TemplateManager.format_multiple_issues
FormatMultipleIssues(issues) ==
    IF issues = <<>> THEN Returned(<<>>)
    ELSE IF Len(issues) = 1
    THEN IF HasPhraseKeys(issues[1]) THEN Returned(FormatIssueDescription(issues[1]))
                                     ELSE Raised("KeyError")
    ELSE IF \E i \in 1..Len(issues) : ~HasPhraseKeys(issues[i]) THEN Raised("KeyError")
    ELSE LET formatted_issues == [i \in 1..Len(issues) |-> FormatIssueDescription(issues[i])]
         IN  IF Len(formatted_issues) = 2
             THEN Returned(formatted_issues[1] \o <<" and ">> \o formatted_issues[2])
             ELSE Returned(Join(", ", SubSeq(formatted_issues, 1, Len(formatted_issues) - 1))
                           \o <<", and ">> \o formatted_issues[Len(formatted_issues)])

\* str.capitalize() of one piece
CapitalizeWord(w) ==
    CASE w = "excellent"        -> "Excellent"
      [] w = "good"             -> "Good"
      [] w = "fair"             -> "Fair"
      [] w = "poor"             -> "Poor"
      [] w = "minor"            -> "Minor"
      [] w = "moderate"         -> "Moderate"
      [] w = "severe"           -> "Severe"
      [] w = "critical"         -> "Critical"
      [] w = "a hairline crack" -> "A hairline crack"
      [] OTHER                  -> w

\* str.capitalize(): the first character in upper case, the others in lower case
Capitalize(text) ==
    [i \in 1..Len(text) |-> IF i = 1 THEN CapitalizeWord(Lower(text[i])) ELSE Lower(text[i])]

Digit(d) ==
    CASE d = 0 -> "0" [] d = 1 -> "1" [] d = 2 -> "2" [] d = 3 -> "3" [] d = 4 -> "4"
      [] d = 5 -> "5" [] d = 6 -> "6" [] d = 7 -> "7" [] d = 8 -> "8" [] d = 9 -> "9"

\* the decimal digits of a natural number
RECURSIVE Digits(_)
Digits(n) == IF n < 10 THEN <<Digit(n)>> ELSE Digits(n \div 10) \o <<Digit(n % 10)>>

\* the digits with a comma between groups of three, as the "," format option does
RECURSIVE GroupThousands(_)
GroupThousands(n) ==
    IF n < 1000 THEN Digits(n)
    ELSE GroupThousands(n \div 1000)
         \o <<",", Digit((n \div 100) % 10), Digit((n \div 10) % 10), Digit(n % 10)>>

\* TemplateManager.format_price: f"${price:,.2f}", the price in cents
FormatPrice(price) ==
    LET a == IF price < 0 THEN -price ELSE price
    IN  (IF price < 0 THEN <<"$", "-">> ELSE <<"$">>)
        \o GroupThousands(a \div 100) \o <<".", Digit((a \div 10) % 10), Digit(a % 10)>>

\* the fraction digits of str(float): no trailing zero, but at least one digit
RECURSIVE FractionDigits(_, _)
FractionDigits(f, scale) ==
    IF scale = 1 \/ f = 0 THEN <<>>
    ELSE <<Digit(f \div (scale \div 10))>> \o FractionDigits(f % (scale \div 10), scale \div 10)

\* TemplateManager.format_percentage: f"{percentage}%"; a missing
\* discount_percentage is the int 0, a present one a float in 1/PctScale
FormatPercentage(percentage) ==
    IF percentage = None THEN <<"0", "%">>
    ELSE LET p == percentage[1]
             a == IF p < 0 THEN -p ELSE p
             fraction == FractionDigits(a % PctScale, PctScale)
         IN  (IF p < 0 THEN <<"-">> ELSE <<>>) \o Digits(a \div PctScale) \o <<".">>
             \o (IF fraction = <<>> THEN <<"0">> ELSE fraction) \o <<"%">>

\* a pricing_data dict as the text generator reads it
PricingData(used_price, discount) ==
    [calculated_used_price |-> used_price, discount_percentage |-> discount]

PriceLine(pricing_data) ==
    <<"Price: ">> \o FormatPrice(Get(pricing_data.calculated_used_price, 0))
        \o <<" (">> \o FormatPercentage(pricing_data.discount_percentage) \o <<" discount)">>

\* variant: a note for every detected issue
GenerateBulletPointsAllIssues(cv, pricing_data) ==
    LET priority_issues == PrioritizeIssues(cv, Len(Get(cv.detected_issues, <<>>)))
    IN  IF \E i \in 1..Len(priority_issues) : ~HasPhraseKeys(priority_issues[i])
        THEN Raised("KeyError")
        ELSE Returned(
               << <<"Condition: ">> \o Capitalize(<<Get(cv.overall_condition, "good")>>) >>
               \o [i \in 1..Len(priority_issues) |->
                      <<"Note: ">> \o Capitalize(FormatIssueDescription(priority_issues[i]))]
               \o << PriceLine(pricing_data) >>)

\* TextGenerator.generate_bullet_points
GenerateBulletPoints(cv, pricing_data) ==
    LET priority_issues == PrioritizeIssues(cv, 3)
    IN  IF \E i \in 1..Len(priority_issues) : ~HasPhraseKeys(priority_issues[i])
        THEN Raised("KeyError")
        ELSE Returned(
               << <<"Condition: ">> \o Capitalize(<<Get(cv.overall_condition, "good")>>) >>
               \o [i \in 1..Len(priority_issues) |->
                      <<"Note: ">> \o Capitalize(FormatIssueDescription(priority_issues[i]))]
               \o << PriceLine(pricing_data) >>)

\* TextGenerator._generate_issue_description: the sentence of the prioritized
\* issues behind a prefix chosen by the severity counts; no issues, no sentence
GenerateIssueDescription(cv) ==
    LET priority_issues == PrioritizeIssues(cv, 3)
        issues_text == FormatMultipleIssues(priority_issues)
        severity_dist == AnalyzeSeverityDistribution(cv)
        prefix == IF severity_dist["severe"] > 0 THEN "Notable defects include"
                  ELSE IF severity_dist["moderate"] > 0 THEN "The item shows"
                  ELSE "Minor imperfections include"
    IN  IF priority_issues = <<>> THEN Returned(<<>>)
        ELSE IF issues_text.raised # "none" THEN issues_text
        ELSE Returned(<<prefix, " ">> \o issues_text.value \o <<".">>)

\* TextGenerator._generate_price_justification; the phrase of the discount
\* level comes from config/templates.json
GeneratePriceJustification(pricing_data) ==
    <<"discount_explanation", ", with the price reduced to ">>
        \o FormatPrice(Get(pricing_data.calculated_used_price, 0))
        \o <<" (">> \o FormatPercentage(pricing_data.discount_percentage)
        \o <<" off the original ">> \o FormatPrice(0) \o <<")", ".">>

\* TextGenerator._generate_closing: one of the positive closings above a
\* discount of 25 percent
GenerateClosing(pricing_data, closing) ==
    IF Get(pricing_data.discount_percentage, 0) > 25 * PctScale
    THEN <<closing, ".">>
    ELSE <<>>

\* the closings random.choice draws from
PositiveClosings == {"positive_closing_1", "positive_closing_2"}

\* TextGenerator.generate_full_explanation: the sections that are not empty,
\* in the order in which " ".join puts them
GenerateFullExplanation(cv, pricing_data, closing) ==
    LET opening == <<"opening", Get(cv.overall_condition, "good")>>
        issue_description == GenerateIssueDescription(cv)
        sections == << opening, issue_description.value,
                       GeneratePriceJustification(pricing_data),
                       GenerateClosing(pricing_data, closing) >>
    IN  IF issue_description.raised # "none" THEN issue_description
        ELSE Returned(SelectSeq(sections, LAMBDA section : section # <<>>))

MaxTextIssues == 4     \* longest detected_issues list given to the text functions

\* an issue as the feature extractor and the templates read it
TextIssue(type, severity, location, confidence) ==
    [type |-> type, severity |-> severity, location |-> location,
     impact |-> None, view |-> None, confidence |-> confidence]

\* three issues of equal score (30), two of them a minor and a critical
\* issue of one type and confidence, two larger scores, a score of 0, and an
\* issue without location
TextIssueInputs ==
    { TextIssue(Some("crack"),   Some("minor"),    Some("top"),  Some(6)),
      TextIssue(Some("scratch"), Some("moderate"), Some("Back"), None),
      TextIssue(Some("dent"),    Some("severe"),   Some("top"),  Some(10)),
      TextIssue(Some("crack"),   Some("critical"), Some("Back"), Some(6)),
      TextIssue(Some("glass"),   Some("minor"),    Some("top"),  Some(9)),
      TextIssue(Some("crack"),   Some("moderate"), None,         Some(10)) }

TextIssueLists ==
    UNION { [1..n -> TextIssueInputs] : n \in 0..MaxTextIssues }

TextCvInputs ==
    { CvData(None, Some("excellent"), None, Some(l)) : l \in TextIssueLists }
    \cup { CvData(None, None, None, None) }

PricingDataInputs ==
    { PricingData(Some(78000), Some(22 * PctScale)),
      PricingData(Some(123456789), Some(22340)),
      PricingData(None, None) }

NoCall == [op |-> "none", max_issues |-> 0, pricing_data |-> PricingData(None, None)]

InitText ==
    /\ InitIdleEval
    /\ cv_data \in TextCvInputs
    /\ request = NoCall
    /\ result = None
    /\ consulted = <<>>
    /\ response = None
    /\ prices = <<>>
    /\ cache = <<>>
    /\ cache_file = <<>>
    /\ now = 0
    /\ use_web_search = FALSE

\* feature_extractor.prioritize_issues(cv_data, max_issues)
CallPrioritizeIssues ==
    \E n \in 0..MaxTextIssues :
        /\ request' = [NoCall EXCEPT !.op = "prioritize_issues", !.max_issues = n]
        /\ result' = Some(Returned(PrioritizeIssues(cv_data, n)))
        /\ UNCHANGED <<evalVars, cv_data, consulted, response, storeVars>>

\* template_manager.format_multiple_issues(detected_issues)
CallFormatMultipleIssues ==
    /\ request' = [NoCall EXCEPT !.op = "format_multiple_issues"]
    /\ result' = Some(FormatMultipleIssues(Get(cv_data.detected_issues, <<>>)))
    /\ UNCHANGED <<evalVars, cv_data, consulted, response, storeVars>>

\* text_generator.generate_bullet_points(cv_data, pricing_data)
CallGenerateBulletPoints ==
    \E p \in PricingDataInputs :
        /\ request' = [NoCall EXCEPT !.op = "generate_bullet_points", !.pricing_data = p]
        /\ result' = Some(GenerateBulletPoints(cv_data, p))
        /\ UNCHANGED <<evalVars, cv_data, consulted, response, storeVars>>

\* feature_extractor._get_most_critical_issue(cv_data)
CallGetMostCriticalIssue ==
    /\ request' = [NoCall EXCEPT !.op = "get_most_critical_issue"]
    /\ result' = Some(Returned(GetMostCriticalIssue(cv_data)))
    /\ UNCHANGED <<evalVars, cv_data, consulted, response, storeVars>>

\* text_generator.generate_full_explanation(cv_data, pricing_data)
CallGenerateFullExplanation ==
    \E p \in PricingDataInputs, closing \in PositiveClosings :
        /\ request' = [NoCall EXCEPT !.op = "generate_full_explanation", !.pricing_data = p]
        /\ result' = Some(GenerateFullExplanation(cv_data, p, closing))
        /\ UNCHANGED <<evalVars, cv_data, consulted, response, storeVars>>

NextText ==
    \/ CallGenerateFullExplanation
    \/ CallPrioritizeIssues
    \/ CallFormatMultipleIssues
    \/ CallGenerateBulletPoints
    \/ CallGetMostCriticalIssue

SpecText == InitText /\ [][NextText]_vars

TextIssues == Get(cv_data.detected_issues, <<>>)

\* issue i comes before issue j in the ranking
RankedBefore(issues, i, j) ==
    \/ IssueScore(issues[i]) > IssueScore(issues[j])
    \/ IssueScore(issues[i]) = IssueScore(issues[j]) /\ i < j

\* C11: prioritize_issues(issues, n) returns at most n items, each an element
\* of the input taken once, in descending order of priority * severity weight *
\* confidence, issues of equal score in their input order.
C11_PrioritizedBestFirst ==
    request.op = "prioritize_issues" =>
        LET out == result[1].value
        IN  /\ result[1].raised = "none"
            /\ Len(out) <= request.max_issues
            /\ \E idx \in [1..Len(out) -> 1..Len(TextIssues)] :
                  /\ \A k \in 1..Len(out) : out[k] = TextIssues[idx[k]]
                  /\ \A k, l \in 1..Len(out) :
                        k < l => RankedBefore(TextIssues, idx[k], idx[l])

\* C11 witness: a list longer than n was cut to n >= 2 items, and two of the
\* items returned are different issues of equal score
C11_Witness ==
    /\ request.op = "prioritize_issues"
    /\ request.max_issues >= 2
    /\ Len(TextIssues) > request.max_issues
    /\ Len(result[1].value) = request.max_issues
    /\ \E k \in 1..(Len(result[1].value) - 1) :
          /\ result[1].value[k] # result[1].value[k + 1]
          /\ IssueScore(result[1].value[k]) = IssueScore(result[1].value[k + 1])

\* the descriptions of the issues, each followed by the separator that the
\* grammar puts behind position i of n
RECURSIVE Enumeration(_, _)
Enumeration(issues, i) ==
    IF i > Len(issues) THEN <<>>
    ELSE FormatIssueDescription(issues[i])
         \o (IF i = Len(issues) THEN <<>>
             ELSE IF i < Len(issues) - 1 THEN <<", ">>
             ELSE IF Len(issues) = 2 THEN <<" and ">> ELSE <<", and ">>)
         \o Enumeration(issues, i + 1)

\* C12: format_multiple_issues renders no issue as the empty text, one issue as
\* its phrase, two as "A and B", three or more as "A, B, and C", in input order.
C12_IssueListGrammar ==
    (/\ request.op = "format_multiple_issues"
     /\ \A i \in 1..Len(TextIssues) : HasPhraseKeys(TextIssues[i])) =>
        /\ result[1].raised = "none"
        /\ result[1].value = Enumeration(TextIssues, 1)
        /\ Len(TextIssues) = 0 => result[1].value = <<>>
        /\ Len(TextIssues) = 1 => result[1].value = FormatIssueDescription(TextIssues[1])
        /\ Len(TextIssues) = 2 =>
              result[1].value = FormatIssueDescription(TextIssues[1]) \o <<" and ">>
                                \o FormatIssueDescription(TextIssues[2])
        /\ Len(TextIssues) = 3 =>
              result[1].value = FormatIssueDescription(TextIssues[1]) \o <<", ">>
                                \o FormatIssueDescription(TextIssues[2]) \o <<", and ">>
                                \o FormatIssueDescription(TextIssues[3])

\* C12 witness: four different issues were rendered
C12_Witness ==
    /\ request.op = "format_multiple_issues"
    /\ Len(TextIssues) = 4
    /\ \A i \in 1..4 : HasPhraseKeys(TextIssues[i])
    /\ \A i, j \in 1..4 : i # j => TextIssues[i] # TextIssues[j]
    /\ result[1].raised = "none"
    /\ Len(result[1].value) > 4

\* C13: generate_bullet_points returns the condition line, one note per
\* prioritized issue and the price line: 2 + min(3, number of issues) bullets;
\* without issues and with condition 'excellent' exactly the two lines.
C13_BulletPointLines ==
    (/\ request.op = "generate_bullet_points"
     /\ \A i \in 1..Len(TextIssues) : HasPhraseKeys(TextIssues[i])) =>
        LET bullets == result[1].value
        IN  /\ result[1].raised = "none"
            /\ Len(bullets) = 2 + Min(3, Len(TextIssues))
            /\ bullets[1][1] = "Condition: "
            /\ bullets[Len(bullets)][1] = "Price: "
            /\ \A i \in 2..(Len(bullets) - 1) : bullets[i][1] = "Note: "
            /\ (TextIssues = <<>> /\ cv_data.overall_condition = Some("excellent")) =>
                  bullets = << <<"Condition: ", "Excellent">>, PriceLine(request.pricing_data) >>

\* C13 witness: four issues gave three notes between the condition line and
\* the price line "$780.00 (22.0% discount)"
C13_Witness ==
    /\ request.op = "generate_bullet_points"
    /\ Len(TextIssues) = 4
    /\ result[1].raised = "none"
    /\ Len(result[1].value) = 5
    /\ result[1].value[5] =
          <<"Price: ", "$", "7", "8", "0", ".", "0", "0", " (", "2", "2", ".", "0", "%",
            " discount)">>

----------------------------------------------------------------------------
(* Input validation                                                         *)
(*   InputValidator   src/data_processing/input_validator.py                *)
(*   InputValidator   NLP/src/data_processing/input_validator.py            *)
(* A value of a record under validation carries its Python type: a number,  *)
(* a string, None, a list or a dict.  An error message is modelled by the   *)
(* check that produced it: what failed, for which field, of which issue     *)
(* (index -1: of the record itself).                                        *)

Num(n) == [kind |-> "number", num |-> n, str |-> ""]
Str(s) == [kind |-> "string", num |-> 0, str |-> s]
Null   == [kind |-> "null",   num |-> 0, str |-> ""]

\* the value of detected_issues: a list, or something that is no list
List(l)  == [kind |-> "list",   items |-> l]
NotAList == [kind |-> "string", items |-> <<>>]

\* an element of detected_issues: a dict with its keys, or something that is
\* no mapping
Dict(d)      == [kind |-> "dict", fields |-> d]
NoDict(kind) ==
    [kind |-> kind,
     fields |-> [type |-> None, location |-> None, severity |-> None, confidence |-> None]]

Error(index, field, what) == [index |-> index, field |-> field, what |-> what]

ErrorIf(condition, error) == IF condition THEN <<error>> ELSE <<>>

Validation(errors) == Returned([valid |-> Len(errors) = 0, errors |-> errors])

\* isinstance(x, (int, float)) and lo <= x <= hi
IsNumberWithin(x, lo, hi) == x.kind = "number" /\ lo <= x.num /\ x.num <= hi

VALID_CONDITIONS == {"excellent", "good", "fair", "poor"}
VALID_SEVERITIES == {"minor", "moderate", "severe"}

\* value not in a list of strings
NotInList(x, strings) == ~(x.kind = "string" /\ x.str \in strings)

\* "Missing ..." for each required field that is not in the dict, in the order
\* of the list of required fields
MissingFields(d, fields, index) ==
    LET absent == SelectSeq(fields, LAMBDA f : d[f] = None)
    IN  [i \in 1..Len(absent) |-> Error(index, absent[i], "missing")]

REQUIRED_CV_FIELDS == <<"item_id", "condition_score", "detected_issues", "overall_condition">>
REQUIRED_ISSUE_FIELDS == <<"type", "location", "severity", "confidence">>
REQUIRED_PRICING_FIELDS == <<"reference_new_price", "calculated_used_price", "discount_percentage">>

\* `field not in issue` raises TypeError for an issue that is no container
IssueRaises(issue) == issue.kind \in {"number", "null"}

\* InputValidator._validate_issue (src/data_processing), for a dict
ValidateIssue(issue, index) ==
    LET d == issue.fields
    IN  MissingFields(d, REQUIRED_ISSUE_FIELDS, index)
        \o ErrorIf(d.severity # None /\ NotInList(d.severity[1], VALID_SEVERITIES),
                   Error(index, "severity", "enum"))
        \o ErrorIf(d.confidence # None /\ ~IsNumberWithin(d.confidence[1], 0, 1 * ConfScale),
                   Error(index, "confidence", "range"))

\* InputValidator._validate_issue (NLP/src/data_processing), for a dict
NlpValidateIssue(issue, index) ==
    MissingFields(issue.fields, REQUIRED_ISSUE_FIELDS, index)

RECURSIVE Flatten(_)
Flatten(seqs) == IF seqs = <<>> THEN <<>> ELSE Head(seqs) \o Flatten(Tail(seqs))

\* the two validators of the repository
Validators == {"src", "NLP"}

\* InputValidator._validate_issue of the given validator
ValidateIssueOf(validator, issue, index) ==
    IF validator = "NLP" THEN NlpValidateIssue(issue, index) ELSE ValidateIssue(issue, index)

\* InputValidator.validate_cv_output: the same code in both validators, except
\* for the message texts and for _validate_issue
ValidateCvOutput(validator, cv) ==
    IF /\ cv.detected_issues # None
       /\ cv.detected_issues[1].kind = "list"
       /\ \E i \in 1..Len(cv.detected_issues[1].items) : IssueRaises(cv.detected_issues[1].items[i])
    THEN Raised("TypeError")
    ELSE Validation(
           MissingFields(cv, REQUIRED_CV_FIELDS, -1)
           \o ErrorIf(cv.condition_score # None
                        /\ ~IsNumberWithin(cv.condition_score[1], 0, 10 * ScoreScale),
                      Error(-1, "condition_score", "range"))
           \o ErrorIf(cv.overall_condition # None
                        /\ NotInList(cv.overall_condition[1], VALID_CONDITIONS),
                      Error(-1, "overall_condition", "enum"))
           \o (IF cv.detected_issues = None THEN <<>>
               ELSE IF cv.detected_issues[1].kind # "list"
               THEN <<Error(-1, "detected_issues", "type")>>
               ELSE LET issues == cv.detected_issues[1].items
                    IN  Flatten([i \in 1..Len(issues) |->
                                    ValidateIssueOf(validator, issues[i], i - 1)])))

\* a comparison of the field with a number raises TypeError
ComparisonRaises(field) == field # None /\ field[1].kind # "number"

\* InputValidator.validate_pricing_data (src/data_processing)
SrcValidatePricingData(pricing_data) ==
    IF \E i \in 1..3 : ComparisonRaises(pricing_data[REQUIRED_PRICING_FIELDS[i]])
    THEN Raised("TypeError")
    ELSE Validation(
           MissingFields(pricing_data, REQUIRED_PRICING_FIELDS, -1)
           \o ErrorIf(pricing_data.reference_new_price # None
                        /\ pricing_data.reference_new_price[1].num <= 0,
                      Error(-1, "reference_new_price", "range"))
           \o ErrorIf(pricing_data.calculated_used_price # None
                        /\ pricing_data.calculated_used_price[1].num < 0,
                      Error(-1, "calculated_used_price", "range"))
           \o ErrorIf(pricing_data.discount_percentage # None
                        /\ ~IsNumberWithin(pricing_data.discount_percentage[1], 0, 100 * PctScale),
                      Error(-1, "discount_percentage", "range")))

\* InputValidator.validate_pricing_data (NLP/src/data_processing)
NlpValidatePricingData(pricing_data) ==
    Validation(MissingFields(pricing_data, REQUIRED_PRICING_FIELDS, -1))

MaxValidatedIssues == 2     \* longest detected_issues list given to a validator

IssueDict(type, location, severity, confidence) ==
    Dict([type |-> type, location |-> location, severity |-> severity,
          confidence |-> confidence])

\* a well-formed issue, one with three violations, one with a confidence that
\* is no number, and two elements that are no mappings
ValidatedIssueInputs ==
    { IssueDict(Some(Str("crack")), Some(Str("top")), Some(Str("minor")), Some(Num(9))),
      IssueDict(Some(Str("crack")), None, Some(Str("critical")), Some(Num(11))),
      IssueDict(Some(Str("dent")), Some(Str("top")), Some(Str("severe")), Some(Str("high"))),
      NoDict("number"),
      NoDict("null") }

ValidatedIssueLists ==
    UNION { [1..n -> ValidatedIssueInputs] : n \in 0..MaxValidatedIssues }

ValidatedCvInputs ==
    { [item_id |-> i, condition_score |-> s, detected_issues |-> d, overall_condition |-> c] :
        i \in {None, Some(Str("TEST001"))},
        s \in {None, Some(Num(7500)), Some(Num(10001)), Some(Num(-1)), Some(Str("7.5"))},
        c \in {None, Some(Str("good")), Some(Str("mint")), Some(Null)},
        d \in {None, Some(NotAList)} \cup {Some(List(l)) : l \in ValidatedIssueLists} }

\* prices in cents, discount in 1/PctScale
ValidatedPricingInputs ==
    { [reference_new_price |-> r, calculated_used_price |-> u, discount_percentage |-> d] :
        r \in {None, Some(Num(100000)), Some(Num(0)), Some(Num(-100)), Some(Str("1000"))},
        u \in {None, Some(Num(78000)), Some(Num(0)), Some(Num(-1)), Some(Null)},
        d \in {None, Some(Num(22000)), Some(Num(0)), Some(Num(100 * PctScale)),
               Some(Num(100 * PctScale + 1)), Some(Num(-1)), Some(Str("22%"))} }

\* InputValidator.validate_pricing_data of the given validator
ValidatePricingData(validator, pricing_data) ==
    IF validator = "NLP" THEN NlpValidatePricingData(pricing_data)
    ELSE SrcValidatePricingData(pricing_data)

NoValidation(record) == [op |-> "none", validator |-> "none", record |-> record]

InitValidate ==
    /\ InitIdleEval
    /\ cv_data = CvScenario
    /\ request \in {NoValidation(r) : r \in ValidatedCvInputs \cup ValidatedPricingInputs}
    /\ result = None
    /\ consulted = <<>>
    /\ response = None
    /\ prices = <<>>
    /\ cache = <<>>
    /\ cache_file = <<>>
    /\ now = 0
    /\ use_web_search = FALSE

\* InputValidator.validate_cv_output(cv_data)
CallValidateCvOutput ==
    \E validator \in Validators :
        /\ request.record \in ValidatedCvInputs
        /\ request' = [request EXCEPT !.op = "validate_cv_output", !.validator = validator]
        /\ result' = Some(ValidateCvOutput(validator, request.record))
        /\ UNCHANGED <<evalVars, cv_data, consulted, response, storeVars>>

\* InputValidator.validate_pricing_data(pricing_data)
CallValidatePricingData ==
    \E validator \in Validators :
        /\ request.record \in ValidatedPricingInputs
        /\ request' = [request EXCEPT !.op = "validate_pricing_data", !.validator = validator]
        /\ result' = Some(ValidatePricingData(validator, request.record))
        /\ UNCHANGED <<evalVars, cv_data, consulted, response, storeVars>>

NextValidate == CallValidateCvOutput \/ CallValidatePricingData

SpecValidate == InitValidate /\ [][NextValidate]_vars

\* the violations of one issue dict
IssueViolations(d, index) ==
    {Error(index, REQUIRED_ISSUE_FIELDS[i], "missing") : i \in {j \in 1..4 : d[REQUIRED_ISSUE_FIELDS[j]] = None}}
    \cup {Error(index, "severity", "enum") : x \in {y \in {1} :
              d.severity # None /\ NotInList(d.severity[1], VALID_SEVERITIES)}}
    \cup {Error(index, "confidence", "range") : x \in {y \in {1} :
              d.confidence # None /\ ~IsNumberWithin(d.confidence[1], 0, 1 * ConfScale)}}

\* the violations of a condition record
CvViolations(cv) ==
    {Error(-1, REQUIRED_CV_FIELDS[i], "missing") : i \in {j \in 1..4 : cv[REQUIRED_CV_FIELDS[j]] = None}}
    \cup {Error(-1, "condition_score", "range") : x \in {y \in {1} :
              cv.condition_score # None
              /\ ~IsNumberWithin(cv.condition_score[1], 0, 10 * ScoreScale)}}
    \cup {Error(-1, "overall_condition", "enum") : x \in {y \in {1} :
              cv.overall_condition # None
              /\ NotInList(cv.overall_condition[1], VALID_CONDITIONS)}}
    \cup {Error(-1, "detected_issues", "type") : x \in {y \in {1} :
              cv.detected_issues # None /\ cv.detected_issues[1].kind # "list"}}
    \cup (IF cv.detected_issues # None /\ cv.detected_issues[1].kind = "list"
          THEN UNION {IssueViolations(cv.detected_issues[1].items[i].fields, i - 1) :
                        i \in {j \in 1..Len(cv.detected_issues[1].items) :
                                  cv.detected_issues[1].items[j].kind = "dict"}}
          ELSE {})

\* the violations of a pricing record
PricingViolations(p) ==
    {Error(-1, REQUIRED_PRICING_FIELDS[i], "missing") : i \in {j \in 1..3 : p[REQUIRED_PRICING_FIELDS[j]] = None}}
    \cup {Error(-1, "reference_new_price", "range") : x \in {y \in {1} :
              p.reference_new_price # None
              /\ ~(p.reference_new_price[1].kind = "number" /\ p.reference_new_price[1].num > 0)}}
    \cup {Error(-1, "calculated_used_price", "range") : x \in {y \in {1} :
              p.calculated_used_price # None
              /\ ~(p.calculated_used_price[1].kind = "number" /\ p.calculated_used_price[1].num >= 0)}}
    \cup {Error(-1, "discount_percentage", "range") : x \in {y \in {1} :
              p.discount_percentage # None
              /\ ~IsNumberWithin(p.discount_percentage[1], 0, 100 * PctScale)}}

Violations(record) ==
    IF record \in ValidatedCvInputs THEN CvViolations(record) ELSE PricingViolations(record)

Range(s) == {s[i] : i \in 1..Len(s)}

\* C14: validate_cv_output and validate_pricing_data never raise; they return
\* valid and errors, errors holding every violation of the record, and valid is
\* true exactly when errors is empty.
C14_ValidatorsNeverRaise ==
    request.op # "none" =>
        /\ result[1].raised = "none"
        /\ Violations(request.record) \subseteq Range(result[1].value.errors)
        /\ result[1].value.valid = (result[1].value.errors = <<>>)

\* a range or enum check of the record fails on a value of the right type
HasRangeViolation(record) ==
    \E e \in Violations(record) :
        /\ e.what \in {"range", "enum"}
        /\ LET holder == IF e.index = -1 THEN record
                         ELSE record.detected_issues[1].items[e.index + 1].fields
           IN  holder[e.field][1].kind = (IF e.what = "range" THEN "number" ELSE "string")

\* C15: every InputValidator reports a record as invalid when a range check
\* or an enum check fails.
C15_RangeViolationsReported ==
    (/\ request.op # "none"
     /\ result[1].raised = "none"
     /\ HasRangeViolation(request.record)) =>
        /\ result[1].value.valid = FALSE
        /\ result[1].value.errors # <<>>

----------------------------------------------------------------------------
(* The discount breakdown of a pricing result *)

BreakdownSum ==
    Pricing.discount_breakdown.usage + Pricing.discount_breakdown.condition
        + Pricing.discount_breakdown.damage

\* scenario 1: 0.8 years of use, condition good, one minor issue, and a
\* reference price of 1000 given by the caller
IsScenario1 ==
    /\ cv_data = CvScenario
    /\ request.reference_price = Some(100000)

Scenario1Result ==
    /\ Pricing.discount_breakdown = [usage |-> 15 * PctScale, condition |-> 5 * PctScale,
                                     damage |-> 2 * PctScale]
    /\ Pricing.discount_percentage = 22 * PctScale
    /\ Pricing.calculated_used_price = 78000
    /\ Pricing.source = "manual"

\* C16 (as claimed): discount_percentage equals min(usage + condition + damage,
\* 85) for the three values reported in discount_breakdown; in scenario 1 the
\* breakdown is 15, 5 and 2, the discount 22 and the price 780.00, source manual.
C16_BreakdownSumsToDiscount ==
    result # None =>
        /\ Pricing.discount_percentage = Min(BreakdownSum, 85 * PctScale)
        /\ IsScenario1 => Scenario1Result

----------------------------------------------------------------------------
(* The overall condition of an evaluation *)

\* the condition labels of the views, as the evaluator reads them
ViewLabels(views) ==
    {Lower(Get(views[i].overall_condition, "good")) : i \in 1..Len(views)}

ConditionScale == {ConditionPriority[i] : i \in 1..Len(ConditionPriority)}

\* position in the scale, 1 for the worst label
ConditionRank(label) == CHOOSE i \in 1..Len(ConditionPriority) : ConditionPriority[i] = label

Reverse(s) == [i \in 1..Len(s) |-> s[Len(s) + 1 - i]]

\* C17: overall_condition is the worst label of the scale broken < damaged <
\* poor < fair < good < very good < excellent among the conditions of the
\* views, whatever the order of the views; labels outside the scale are
\* ignored, and without any label of the scale the result is 'good'.
C17_WorstViewConditionWins ==
    LET overall == summary.overall_condition[1]
        onScale == ViewLabels(analysis) \cap ConditionScale
    IN  /\ onScale = {} => overall = "good"
        /\ onScale # {} =>
              /\ overall \in onScale
              /\ \A l \in onScale : ConditionRank(overall) <= ConditionRank(l)
        /\ EvaluateFromGemini(Reverse(analysis), usage_years).overall_condition
              = summary.overall_condition

\* C17 witness: the first view is excellent, the second one is poor (written
\* 'POOR'), and the evaluation says poor
C17_Witness ==
    /\ Len(analysis) = 2
    /\ analysis[1].overall_condition = Some("excellent")
    /\ analysis[2].overall_condition = Some("POOR")
    /\ summary.overall_condition = Some("poor")

----------------------------------------------------------------------------
(* Market statistics of a web-sourced price *)

\* pricing_data.get('search_details'), as process_complete_workflow reads it
SearchDetails(pricing_data) ==
    IF "search_details" \in DOMAIN pricing_data
    THEN Some(pricing_data.search_details)
    ELSE None

\* C20: a pricing result whose reference price came from the web search tier
\* carries the market statistics that the orchestrator reads as
\* search_details; a result with a manual or database price carries none.
C20_WebSearchResultCarriesStatistics ==
    result # None =>
        /\ Pricing.source = "web_search" => SearchDetails(Pricing) # None
        /\ Pricing.source \in {"manual", "database"} => SearchDetails(Pricing) = None

----------------------------------------------------------------------------
(* The complete workflow                                                    *)
(*   CVIntegrationService   NLP/src/services/cv_integration_service.py      *)
(*   ProductSpecsExtractor  NLP/src/external/product_specs_extractor.py     *)
(*   BilingualReportGenerator                                               *)
(*                          NLP/src/nlp_engine/bilingual_report_generator.py *)
(*   POST /cv-to-pricing    NLP/api/main.py                                 *)
(* The two collaborators talk to remote services; what a call of one does  *)
(* is an outcome drawn by the caller: it succeeds, it fails and handles    *)
(* the failure itself, or it raises.  A report is modelled by its status   *)
(* and by the condition that its template names.                           *)

RECURSIVE LStrip(_)
\* the string without its leading blanks
LStrip(s) == IF s # <<>> /\ Head(s) = " " THEN LStrip(Tail(s)) ELSE s

\* the position of the first blank of s, 0 if it has none
FirstBlank(s) ==
    IF \E i \in 1..Len(s) : s[i] = " "
    THEN CHOOSE i \in 1..Len(s) : s[i] = " " /\ \A j \in 1..(i - 1) : s[j] # " "
    ELSE 0

\* _parse_product_name: product_name.split(maxsplit=1)
ParseProductName(product_name) ==
    LET s    == LStrip(product_name)
        i    == FirstBlank(s)
        rest == IF i = 0 THEN <<>> ELSE LStrip(SubSeq(s, i + 1, Len(s)))
    IN  IF rest # <<>>
        THEN [brand |-> SubSeq(s, 1, i - 1), model |-> rest]
        ELSE [brand |-> product_name, model |-> product_name]

SpecsOutcomes == {"success", "failed", "raises"}

\* a product_specs dict
ProductSpecs(product_name, brand, model, specifications, extraction_status) ==
    [ product_name      |-> product_name,
      brand             |-> brand,
      model             |-> model,
      specifications    |-> specifications,
      extraction_status |-> extraction_status ]

\* _create_failure_response
CreateFailureResponse(brand, model) ==
    ProductSpecs(brand \o <<" ">> \o model, None, None,
                 [k \in {"Status"} |-> "Live data search limited"], Some("failed"))

\* extract_specs: no search result, an HTTP error and an exception inside its
\* try block all end in the failure response
ExtractSpecs(outcome, brand, model) ==
    CASE outcome = "success" ->
            Returned(ProductSpecs(brand \o <<" ">> \o model, None, None,
                                  [k \in {"Display", "Battery"} |-> "as found"],
                                  Some("success")))
      [] outcome = "failed" -> Returned(CreateFailureResponse(brand, model))
      [] OTHER -> Raised("Exception")

\* variant: a raising extractor is answered with the extractor's failure response
SpecsOrPlaceholderWithNotice(extracted, product_name, brand, model) ==
    IF extracted.raised = "none" THEN extracted.value
    ELSE CreateFailureResponse(brand, model)

\* process_complete_workflow, step 3: the specs, or minimal specs if the
\* extraction raises
SpecsOrPlaceholder(extracted, product_name, brand, model) ==
    IF extracted.raised = "none" THEN extracted.value
    ELSE ProductSpecs(product_name, Some(brand), Some(model), <<>>, None)

ReportOutcomes == {"success", "api_failed", "raises"}

Report(status, condition) == [status |-> status, condition |-> condition]

\* condition_priority.get(c, 2) of _extract_condition_from_cv
ReportConditionPriority(c) ==
    CASE c = "poor" -> 0
      [] c = "fair" -> 1
      [] c = "good" -> 2
      [] c = "excellent" -> 3
      [] OTHER -> 2

\* the issue texts of one view: for every damage type its first item, as
\* "{severity} {damage_type} on {view}"
ViewIssueTexts(view) ==
    LET items == view.damage_details
        firsts == SelectSeq([j \in 1..Len(items) |-> j],
                            LAMBDA j : \A k \in 1..(j - 1) : items[k].damage_type # items[j].damage_type)
    IN  [n \in 1..Len(firsts) |->
            <<Get(items[firsts[n]].details.severity, "minor"), items[firsts[n]].damage_type,
              Lower(view.name)>>]

\* min(conditions, key=priority): the first condition of the lowest priority
FirstWorst(conditions) ==
    conditions[CHOOSE i \in 1..Len(conditions) :
        /\ \A j \in 1..Len(conditions) :
              ReportConditionPriority(conditions[i]) <= ReportConditionPriority(conditions[j])
        /\ \A j \in 1..(i - 1) :
              ReportConditionPriority(conditions[j]) > ReportConditionPriority(conditions[i])]

\* _extract_condition_from_cv
ExtractConditionFromCv(analysis_results) ==
    IF analysis_results = <<>>
    THEN [overall |-> "good", issues |-> <<>>, severity |-> "none"]
    ELSE LET conditions == [i \in 1..Len(analysis_results) |->
                               Lower(Get(analysis_results[i].overall_condition, "good"))]
             all_issues == Flatten([i \in 1..Len(analysis_results) |->
                                       ViewIssueTexts(analysis_results[i])])
         IN  [ overall  |-> FirstWorst(conditions),
               issues   |-> SubSeq(all_issues, 1, Min(3, Len(all_issues))),
               severity |-> IF \E i \in 1..Len(all_issues) : all_issues[i][1] \in {"severe", "major"}
                            THEN "severe"
                            ELSE IF \E i \in 1..Len(all_issues) : all_issues[i][1] = "moderate"
                            THEN "moderate"
                            ELSE IF all_issues # <<>> THEN "minor" ELSE "none" ]

\* cv_data.get('analysis_results', {}): the output of the evaluator, which is
\* what the workflow hands over as cv_data, has no such key
AnalysisResultsOf(cv_output) == <<>>

\* _generate_fallback_report: the template names the condition and the
\* issues of the summary of cv_data['analysis_results']
GenerateFallbackReport(cv_output) ==
    Report("fallback", Some(ExtractConditionFromCv(AnalysisResultsOf(cv_output)).overall))

\* generate_complete_report: a failed API call ends in the fallback report
GenerateCompleteReport(outcome, product_specs, cv_output, pricing_data, search_details) ==
    CASE outcome = "success" -> Returned(Report("success", None))
      [] outcome = "api_failed" -> Returned(GenerateFallbackReport(cv_output))
      [] OTHER -> Raised("Exception")

\* _generate_minimal_report
GenerateMinimalReport(product_name, cv_output, pricing_data) ==
    Report("minimal_fallback", Some(Get(cv_output.overall_condition, "good")))

\* process_complete_workflow, step 5: the report, or the minimal report if
\* the generator raises
ReportOrMinimal(generated, product_name, cv_output, pricing_data) ==
    IF generated.raised = "none" THEN generated.value
    ELSE GenerateMinimalReport(product_name, cv_output, pricing_data)

\* a return value of process_complete_workflow; a missing key is None
WorkflowResult(success, error, product_specs, pricing, report) ==
    [ success       |-> success,
      error         |-> error,
      product_specs |-> product_specs,
      pricing       |-> pricing,
      report        |-> report ]

\* _build_success_response
BuildSuccessResponse(product_specs, pricing_data, bilingual_report) ==
    WorkflowResult(TRUE, None, Some(product_specs), Some(pricing_data),
                   Some(bilingual_report))

PriceNotFound == WorkflowResult(FALSE, Some("price_not_found"), None, None, None)

\* the outer except clause: "Processing failed: ..."
ProcessingFailed == WorkflowResult(FALSE, Some("Processing failed"), None, None, None)

\* process_complete_workflow after the evaluator has returned cv_output and
\* the calculator priced: the return value and the collaborators called.
\* usage_years is a JSON value: the calculator compares it with a number,
\* which raises unless it is one; validate_pricing_logic divides by the
\* reference price.
ProcessCompleteWorkflow(product_name, usage, cv_output, priced, specs_outcome, report_outcome) ==
    LET name      == ParseProductName(product_name)
        extracted == ExtractSpecs(specs_outcome, name.brand, name.model)
        specs     == SpecsOrPlaceholder(extracted, product_name, name.brand, name.model)
        generated == GenerateCompleteReport(report_outcome, specs, cv_output,
                                            priced.result[1],
                                            SearchDetails(priced.result[1]))
        report    == ReportOrMinimal(generated, product_name, cv_output, priced.result[1])
        called    == <<Tier("specs_extractor", specs_outcome)>> \o priced.consulted
    IN  IF priced.result = None
        THEN [result |-> PriceNotFound, consulted |-> called]
        ELSE IF usage.kind # "number" \/ priced.result[1].reference_new_price = 0
        THEN [result |-> ProcessingFailed, consulted |-> called]
        ELSE [result |-> BuildSuccessResponse(specs, priced.result[1], report),
              consulted |-> Append(called, Tier("report_generator", report_outcome))]

\* the arguments of the workflow's call of calculate_used_price
WorkflowPriceRequest(product_name, product_type) ==
    [ brand           |-> ParseProductName(product_name).brand,
      model           |-> ParseProductName(product_name).model,
      category        |-> product_type,
      reference_price |-> None ]

\* a response of POST /cv-to-pricing
HttpResponse(code, body) == [code |-> code, body |-> body]

\* cv_to_pricing, after the workflow has returned
CvToPricingResponse(workflow_result) ==
    HttpResponse(IF workflow_result.success THEN 200 ELSE 404, Some(workflow_result))

\* a request body: the JSON object with its keys, or a body that is no JSON
Body(product_name, product_type, usage, analysis_results) ==
    [ json             |-> TRUE,
      product_name     |-> product_name,
      product_type     |-> product_type,
      usage_years      |-> usage,
      analysis_results |-> analysis_results ]

NoJson == [Body(<<>>, <<>>, None, <<>>) EXCEPT !.json = FALSE]

\* cv_to_pricing before the workflow: 500 if reading the body raises, 400
\* if the body is empty or lacks a required field, otherwise no response yet
CvToPricingRejection(data) ==
    IF ~data.json THEN Some(HttpResponse(500, None))
    ELSE IF data.product_name = <<>> \/ data.product_type = <<>>
            \/ data.analysis_results = <<>>
    THEN Some(HttpResponse(400, None))
    ELSE None

WorkflowAnalyses ==
    << <<[name |-> "Front", overall_condition |-> Some("excellent"), damage_details |-> <<>>]>>,
       <<[name |-> "Front", overall_condition |-> Some("fair"),
          damage_details |-> <<[damage_type |-> <<"c","r","a","c","k","s">>,
                                details |-> [severity |-> Some("moderate"),
                                             location |-> Some("center")]]>>]>> >>

\* what search_product_price can answer in a request
WorkflowSearchResults == {SearchNotFound, SearchFound(80000)}

Bodies ==
    { Body(n, <<"c">>, u, WorkflowAnalyses[2]) :
        n \in {<<"a", " ", "x">>, <<"b">>}, u \in {Some(Num(15)), Some(Null)} }
    \cup { Body(<<"a", " ", "x">>, <<"c">>, None, WorkflowAnalyses[1]),
           Body(<<>>, <<"c">>, Some(Num(15)), WorkflowAnalyses[1]),
           Body(<<"a", " ", "x">>, <<>>, None, WorkflowAnalyses[1]),
           Body(<<"a", " ", "x">>, <<"c">>, None, <<>>),
           NoJson }

\* the service has just started, with a database and an empty cache file
InitWorkflow ==
    /\ InitIdleEval
    /\ cv_data = CvScenario
    /\ request = NoJson
    /\ result = None
    /\ consulted = <<>>
    /\ response = None
    /\ prices \in Databases
    /\ use_web_search \in BOOLEAN
    /\ cache_file = <<>>
    /\ cache = <<>>
    /\ now = 0

\* POST /cv-to-pricing with a body that the handler answers itself
PostCvToPricingRejected ==
    \E data \in Bodies :
        /\ CvToPricingRejection(data) # None
        /\ request' = data
        /\ result' = None
        /\ consulted' = <<>>
        /\ response' = CvToPricingRejection(data)
        /\ UNCHANGED <<evalVars, cv_data, storeVars>>

\* POST /cv-to-pricing with a body that reaches process_complete_workflow,
\* which evaluates the condition, prices the product and builds its answer
PostCvToPricing ==
    \E data \in Bodies, specs_outcome \in SpecsOutcomes, report_outcome \in ReportOutcomes,
       search_result \in WorkflowSearchResults, ties \in FloatTies :
      /\ CvToPricingRejection(data) = None
      /\ \E usage \in {Get(data.usage_years, Num(0))} :
         \E cv_output \in {EvaluateFromGemini(data.analysis_results, usage.num)} :
         \E priced \in {CalculateUsedPrice(prices, cache, cache_file, now, use_web_search,
                                           WorkflowPriceRequest(data.product_name,
                                                                data.product_type),
                                           cv_output, search_result, ties)} :
         \E w \in {ProcessCompleteWorkflow(data.product_name, usage, cv_output, priced,
                                           specs_outcome, report_outcome)} :
            /\ TiesMatter(ties, cv_output, priced.result)
            /\ request' = data
            /\ result' = Some(w.result)
            /\ consulted' = w.consulted
            /\ cache' = priced.cache
            /\ cache_file' = priced.cache_file
            /\ response' = Some(CvToPricingResponse(w.result))
            /\ UNCHANGED <<evalVars, cv_data, prices, now, use_web_search>>

NextWorkflow == PostCvToPricingRejected \/ PostCvToPricing

SpecWorkflow == InitWorkflow /\ [][NextWorkflow]_vars

\* the outcomes of the calls made to a collaborator in the last request
Called(collaborator) ==
    {consulted[i].outcome : i \in {j \in 1..Len(consulted) : consulted[j].tier = collaborator}}

\* the last request reached a price tier that had the reference price
PriceResolved ==
    \E i \in 1..Len(consulted) :
        consulted[i].tier \in {"database", "cache", "web_search"} /\ consulted[i].outcome = "hit"

\* the last request carried a number as usage_years, or none
UsageIsNumber == request.json /\ Get(request.usage_years, Num(0)).kind = "number"

WorkflowReturned == result[1]

SucceededWithPricing == WorkflowReturned.success /\ WorkflowReturned.pricing # None

C19_NotFoundOnlyForMissingPrice ==
    response # None =>
        /\ response[1].code = 404 => WorkflowReturned.error = Some("price_not_found")
        /\ (result # None /\ WorkflowReturned.error = Some("price_not_found")) =>
              /\ response[1].code = 404
              /\ Called("report_generator") = {}
        /\ (result # None /\ WorkflowReturned.error = Some("Processing failed")) =>
              response[1].code = 500

----------------------------------------------------------------------------
(* One PriceCache instance: set, get, clear_expired and clear_all called    *)
(* in any order while time passes.  request is the last call, result what   *)
(* a get returned, and consulted remembers, for every product that set was  *)
(* called for, the price data and the day of its latest set and whether     *)
(* clear_all ran since.                                                     *)

MaxCachedProducts == 2   \* products that set is called for in one run

\* a file that json.load rejects, written as a map under a key of no product
CorruptFile ==
    [k \in {<<"{">>} |-> [timestamp |-> 0, price_data |-> SearchNotFound]]

\* PriceCache._load_cache
LoadCache(file) == IF file = CorruptFile THEN <<>> ELSE file

\* PriceCache.clear_expired
ClearExpired(c, file, t) ==
    LET expired_keys == {k \in DOMAIN c : t - c[k].timestamp > ExpiryDays}
        kept         == [k \in DOMAIN c \ expired_keys |-> c[k]]
    IN  IF expired_keys # {}
        THEN [cache |-> kept, cache_file |-> kept]
        ELSE [cache |-> c, cache_file |-> file]

\* PriceCache.clear_all
ClearAll(c, file) == [cache |-> <<>>, cache_file |-> <<>>]

Product(brand, model, category) == [brand |-> brand, model |-> model, category |-> category]

\* three products; the first two differ in model and category
CachedProducts ==
    { Product(<<"a">>, <<"x">>, <<"c">>),
      Product(<<"a">>, <<"x", " ", "c">>, <<>>),
      Product(<<"b">>, <<"x">>, <<>>) }

CachedPriceData == {SearchFound(80000), SearchFound(85000)}

CacheCall(op, product, price_data) ==
    [op |-> op, brand |-> product.brand, model |-> product.model,
     category |-> product.category, price_data |-> price_data]

NoCacheCall == CacheCall("none", Product(<<>>, <<>>, <<>>), None)

InitCache ==
    /\ InitIdleEval
    /\ cv_data = CvScenario
    /\ request = NoCacheCall
    /\ result = None
    /\ consulted = <<>>
    /\ response = None
    /\ prices = <<>>
    /\ use_web_search = TRUE
    /\ cache_file \in {<<>>, CorruptFile}
    /\ cache = LoadCache(cache_file)
    /\ now = 0

\* price_cache.set(brand, model, price_data, category)
CallCacheSet ==
    \E p \in CachedProducts, d \in CachedPriceData :
        /\ p \in DOMAIN consulted \/ Cardinality(DOMAIN consulted) < MaxCachedProducts
        /\ LET s == CacheSet(cache, now, p.brand, p.model, d, p.category)
           IN  /\ cache' = s.cache
               /\ cache_file' = s.cache_file
        /\ request' = CacheCall("set", p, Some(d))
        /\ result' = None
        /\ consulted' = PutKey(consulted, p, [price_data |-> d, time |-> now, cleared |-> FALSE])
        /\ UNCHANGED <<evalVars, cv_data, response, prices, now, use_web_search>>

\* price_cache.get(brand, model, category)
CallCacheGet ==
    \E p \in CachedProducts :
        /\ LET g == CacheGet(cache, cache_file, now, p.brand, p.model, p.category)
           IN  /\ cache' = g.cache
               /\ cache_file' = g.cache_file
               /\ result' = g.value
        /\ request' = CacheCall("get", p, None)
        /\ UNCHANGED <<evalVars, cv_data, consulted, response, prices, now, use_web_search>>

\* price_cache.clear_expired()
CallClearExpired ==
    /\ LET e == ClearExpired(cache, cache_file, now)
       IN  /\ cache' = e.cache
           /\ cache_file' = e.cache_file
    /\ request' = [NoCacheCall EXCEPT !.op = "clear_expired"]
    /\ result' = None
    /\ UNCHANGED <<evalVars, cv_data, consulted, response, prices, now, use_web_search>>

\* price_cache.clear_all()
CallClearAll ==
    /\ LET e == ClearAll(cache, cache_file)
       IN  /\ cache' = e.cache
           /\ cache_file' = e.cache_file
    /\ request' = [NoCacheCall EXCEPT !.op = "clear_all"]
    /\ result' = None
    /\ consulted' = [p \in DOMAIN consulted |-> [consulted[p] EXCEPT !.cleared = TRUE]]
    /\ UNCHANGED <<evalVars, cv_data, response, prices, now, use_web_search>>

\* half an expiry period passes
DaysPass ==
    /\ now + ExpiryDays \div 2 + 1 <= MaxTime
    /\ now' = now + ExpiryDays \div 2 + 1
    /\ UNCHANGED <<evalVars, callVars, prices, cache, cache_file, use_web_search>>

NextCache == CallCacheSet \/ CallCacheGet \/ CallClearExpired \/ CallClearAll \/ DaysPass

SpecCache == InitCache /\ [][NextCache]_vars

\* the product that the last call named
Requested == Product(request.brand, request.model, request.category)

\* C21: a get within the expiry window returns the price data most recently
\* set for the same brand, model and category, and None for a brand, model
\* and category that set was never called for, whatever else is cached.
C21_GetReturnsOwnEntry ==
    request.op = "get" =>
        /\ Requested \notin DOMAIN consulted => result = None
        /\ (/\ Requested \in DOMAIN consulted
            /\ ~consulted[Requested].cleared
            /\ now - consulted[Requested].time <= ExpiryDays)
           => result = Some(consulted[Requested].price_data)

\* C26: after a set, a clear_all, a get that evicts an expired entry or a
\* clear_expired that removes something, the cache file holds the whole
\* in-memory map; a get that hits or misses and a clear_expired with nothing
\* expired leave the map and the file as they were.
C26_FileHoldsMapAfterMutation ==
    [][ /\ request'.op \in {"set", "clear_all"} => cache_file' = cache'
        /\ request'.op \in {"get", "clear_expired"} =>
              IF cache' # cache
              THEN cache_file' = cache'
              ELSE cache_file' = cache_file
        /\ (request'.op = "get" /\ result' # None) =>
              cache' = cache /\ cache_file' = cache_file ]_vars

\* a get has just evicted an expired entry and another product stays cached
C26_Witness ==
    /\ request.op = "get"
    /\ result = None
    /\ Requested \in DOMAIN consulted
    /\ ~consulted[Requested].cleared
    /\ now - consulted[Requested].time > ExpiryDays
    /\ CacheGenerateKey(request.brand, request.model, request.category) \notin DOMAIN cache
    /\ cache # <<>>
    /\ cache_file = cache

----------------------------------------------------------------------------
(* The damage component *)

\* the damage component as described: the impact as a percentage if it is
\* present and not zero, otherwise the severity weights of the issues, at
\* most 25
DescribedDamage(cv) ==
    LET impact == Get(cv.total_discount_impact, 0)
        issues == Get(cv.detected_issues, <<>>)
    IN  IF impact # 0
        THEN impact * ((100 * PctScale) \div ImpactScale)
        ELSE Min(SumSeq([i \in 1..Len(issues) |-> FallbackWeight(issues[i])]), 25 * PctScale)

\* C22: the damage component is total_discount_impact * 100 when that field
\* is present and not zero, otherwise the sum of the severity weights of
\* detected_issues capped at 25; it never exceeds 30 percentage points.
C22_DamageComponentCapped ==
    result # None =>
        /\ \E up \in BOOLEAN :
              Pricing.discount_breakdown.damage = RoundPct2(DescribedDamage(cv_data), up)
        /\ Pricing.discount_breakdown.damage <= 30 * PctScale

----------------------------------------------------------------------------
(* BilingualReportGenerator: one report request and its API attempts.      *)
(* request is what the API answers to the first, second and third post,    *)
(* response the position of the retry wrapper, consulted the posts and     *)
(* sleeps of the request in order, now the clock in seconds and result the *)
(* report that generate_complete_report returned.                          *)

MaxRetries == 3
BaseDelay == 2
MinRequestInterval == 1

\* what the API gives to one requests.post: a status code with the text and
\* the JSON of the body; status code 0 stands for a post that raises
Answer(status_code, text, json) == [status_code |-> status_code, text |-> text, json |-> json]

ApiAnswers ==
    { Answer(200, <<>>, "candidates"),
      Answer(200, <<>>, "empty"),
      Answer(200, <<>>, "no_candidates"),
      Answer(429, <<"Resource", "exhausted">>, "none"),
      Answer(500, <<"Internal", "error">>, "none"),
      Answer(500, <<"Internal", "error", "trace", "429">>, "none"),
      Answer(0, <<"Connection", "refused">>, "none") }

\* str.lower() on the words of the messages
LowerWord(word) ==
    CASE word = "Rate" -> "rate"
      [] word = "Limit" -> "limit"
      [] word = "API" -> "api"
      [] word = "Error:" -> "error:"
      [] word = "Resource" -> "resource"
      [] word = "Internal" -> "internal"
      [] word = "Connection" -> "connection"
      [] OTHER -> word

\* str(response.status_code)
StatusText(status_code) ==
    CASE status_code = 429 -> "429"
      [] status_code = 500 -> "500"
      [] OTHER -> "200"

\* the test of retry_with_backoff on str(e)
IsRateLimitError(message) ==
    \/ \E i \in 1..Len(message) : message[i] = "429"
    \/ \E i \in 1..(Len(message) - 1) :
          LowerWord(message[i]) = "rate" /\ LowerWord(message[i + 1]) = "limit"

\* _call_gemini_api after the post: the JSON of a 200, otherwise an exception
CallGeminiApi(answer) ==
    CASE answer.status_code = 0 -> Raised(answer.text)
      [] answer.status_code = 200 -> Returned(answer.json)
      [] answer.status_code = 429 -> Raised(<<"Rate", "limit", "exceeded", "(", "429", ")">>)
      [] OTHER -> Raised(<<"API", "Error:", StatusText(answer.status_code), "-">> \o answer.text)

\* _rate_limit_wait: the sleep that keeps two posts an interval apart
RateLimitWait(last_request_time, t) ==
    IF t - last_request_time < MinRequestInterval
    THEN MinRequestInterval - (t - last_request_time)
    ELSE 0

\* the events of one report request
Slept(delay) == [event |-> "sleep", delay |-> delay, status_code |-> 0]
Posted(status_code) == [event |-> "post", delay |-> 0, status_code |-> status_code]

\* the position of the wrapper of retry_with_backoff
Wrapper(pc, attempt, last_request_time, outcome) == [pc |-> pc, attempt |-> attempt, last_request_time |-> last_request_time, outcome |-> outcome]

InitRetry ==
    /\ InitIdleEval
    /\ cv_data = CvScenario
    /\ prices = <<>>
    /\ cache = <<>>
    /\ cache_file = <<>>
    /\ use_web_search = TRUE
    /\ now = MinRequestInterval
    /\ request \in [1..MaxRetries -> ApiAnswers]
    /\ \E last \in {0, MinRequestInterval} :
          response = Wrapper("calling", 0, last, Returned("none"))
    /\ consulted = <<>>
    /\ result = None

\* one pass of the loop of retry_with_backoff around _call_gemini_api
AttemptCall ==
    /\ response.pc = "calling"
    /\ LET wait == RateLimitWait(response.last_request_time, now)
           sent == now + wait
           answer == request[response.attempt + 1]
           outcome == CallGeminiApi(answer)
           delay == BaseDelay * (2 ^ response.attempt)
           waited == IF wait > 0 THEN <<Slept(wait)>> ELSE <<>>
           log == consulted \o waited \o <<Posted(answer.status_code)>>
       IN  IF outcome.raised = "none"
           THEN /\ response' = Wrapper("returned", response.attempt, sent, outcome)
                /\ consulted' = log
                /\ now' = sent
           ELSE IF response.attempt = MaxRetries - 1
           THEN /\ response' = Wrapper("raised", response.attempt, sent, outcome)
                /\ consulted' = log
                /\ now' = sent
           ELSE IF IsRateLimitError(outcome.raised)
           THEN /\ response' = Wrapper("calling", response.attempt + 1, sent, outcome)
                /\ consulted' = log \o <<Slept(delay)>>
                /\ now' = sent + delay
           ELSE /\ response' = Wrapper("raised", response.attempt, sent, outcome)
                /\ consulted' = log
                /\ now' = sent
    /\ UNCHANGED <<evalVars, cv_data, request, result, prices, cache, cache_file, use_web_search>>

\* the end of generate_complete_report: the report of the API, or the
\* template when the call raised or gave nothing usable
FinishReport ==
    /\ response.pc \in {"returned", "raised"}
    /\ result' = IF response.outcome.raised = "none" /\ response.outcome.value = "candidates"
                 THEN Some(Report("success", None))
                 ELSE Some(GenerateFallbackReport(cv_data))
    /\ response' = [response EXCEPT !.pc = "done"]
    /\ UNCHANGED <<evalVars, cv_data, request, consulted, storeVars>>

NextRetry == AttemptCall \/ FinishReport

SpecRetry == InitRetry /\ [][NextRetry]_vars

\* the positions in the log of the posts of the request
Posts == {i \in 1..Len(consulted) : consulted[i].event = "post"}

\* the number of posts up to position i of the log
PostNumber(i) == Cardinality({j \in Posts : j <= i})

\* C23: the API is attempted at most 3 times; an attempt after the first
\* follows a 429 failure and a wait of 2 seconds (second attempt) or
\* 4 seconds (third attempt); when the attempts end in a failure the request
\* ends with the fallback report.
C23_RetryOnlyOnRateLimit ==
    /\ Cardinality(Posts) <= 3
    /\ \A i \in Posts :
          PostNumber(i) > 1 =>
              /\ consulted[i - 1] = Slept(2 ^ (PostNumber(i) - 1))
              /\ consulted[i - 2] = Posted(429)
    /\ response.pc = "done" =>
          /\ result # None
          /\ consulted[Len(consulted)].status_code # 200 => result[1].status = "fallback"

----------------------------------------------------------------------------
(* ConditionEvaluator: the severities of the detected issues *)

Severities == {"minor", "moderate", "severe", "critical"}

\* C24: every detected issue of the evaluator carries a severity of minor,
\* moderate, severe or critical, and the four counts of
\* severity_distribution sum to the number of detected issues.
C24_SeveritiesAreCanonical ==
    /\ \A i \in 1..Len(SummaryIssues) : Get(SummaryIssues[i].severity, "none") \in Severities
    /\ DOMAIN Get(summary.severity_distribution, <<>>) = Severities
    /\ LET distribution == Get(summary.severity_distribution, <<>>)
       IN  distribution["minor"] + distribution["moderate"] + distribution["severe"]
               + distribution["critical"] = Len(SummaryIssues)

----------------------------------------------------------------------------
(* ConditionEvaluator: the issue types of the damage keys *)

\* the issue type the singular of a plural damage key is
Singular(damage_type) ==
    CASE damage_type = <<"s","c","r","a","t","c","h","e","s">> -> <<"s","c","r","a","t","c","h">>
      [] damage_type = <<"c","r","a","c","k","s">> -> <<"c","r","a","c","k">>
      [] damage_type = <<"d","e","n","t","s">> -> <<"d","e","n","t">>
      [] OTHER -> damage_type

\* the word of a type, as the key of the tables of Config
TypeWord(type) ==
    CASE type = <<"s","c","r","a","t","c","h">> -> "scratch"
      [] type = <<"c","r","a","c","k">> -> "crack"
      [] type = <<"d","e","n","t">> -> "dent"
      [] OTHER -> "other"

\* the damage keys of the items of the analysis, in the order of the issues
RawDamageTypes ==
    Flatten([v \in 1..Len(analysis) |->
        [j \in 1..Len(analysis[v].damage_details) |-> analysis[v].damage_details[j].damage_type]])

\* C25: the issue of a damage item under 'scratches', 'cracks' or 'dents'
\* has the type 'scratch', 'crack' or 'dent', a type of non-zero priority
\* in the issue-priority table.
C25_PluralKeyBecomesSingular ==
    \A i \in 1..Len(SummaryIssues) :
        RawDamageTypes[i] # Singular(RawDamageTypes[i]) =>
            /\ SummaryIssues[i].type = Some(Singular(RawDamageTypes[i]))
            /\ GetIssuePriority(TypeWord(Get(SummaryIssues[i].type, <<>>))) # 0

----------------------------------------------------------------------------
(* FeatureExtractor: ranking and the severities of the evaluator *)

\* issue a is of the type and confidence of issue b and of lower severity,
\* in the order minor < moderate < severe < critical of SEVERITY_WEIGHTS
LowerSeverityTwin(a, b) ==
    /\ a.type = b.type
    /\ a.confidence = b.confidence
    /\ a.severity # None /\ b.severity # None
    /\ a.severity[1] \in {"minor", "moderate", "severe", "critical"}
    /\ b.severity[1] \in {"minor", "moderate", "severe", "critical"}
    /\ SeverityWeight(a.severity[1]) < SeverityWeight(b.severity[1])

\* C27: of two issues of the same type and confidence, prioritize_issues
\* never puts the one of lower severity ahead of the one of higher severity
\* (minor < moderate < severe < critical), and _get_most_critical_issue never
\* returns an issue that has a twin of higher severity in the list.
C27_RankingRespectsSeverity ==
    /\ request.op = "prioritize_issues" =>
          \A k, l \in 1..Len(result[1].value) :
              k < l => ~LowerSeverityTwin(result[1].value[k], result[1].value[l])
    /\ (request.op = "get_most_critical_issue" /\ result[1].value # None) =>
          \A i \in 1..Len(TextIssues) :
              ~LowerSeverityTwin(result[1].value[1], TextIssues[i])

----------------------------------------------------------------------------
(* TextGenerator: the prefix of the issue sentence *)

\* the severities of the detected issues of the call
TextSeverities == {Get(TextIssues[i].severity, "minor") : i \in 1..Len(TextIssues)}

\* C28: the issue sentence of generate_full_explanation starts with 'Minor
\* imperfections include' only when every detected issue is minor, and with
\* 'Notable defects include' if any detected issue is severe or critical.
C28_PrefixReflectsWorstSeverity ==
    (/\ request.op = "generate_full_explanation"
     /\ result[1].raised = "none"
     /\ TextIssues # <<>>) =>
        LET prefix == result[1].value[2][1]
        IN  /\ prefix = "Minor imperfections include" => TextSeverities = {"minor"}
            /\ TextSeverities \cap {"severe", "critical"} # {} =>
                  prefix = "Notable defects include"

----------------------------------------------------------------------------
(* The fallback report of the complete workflow *)

\* what the evaluator makes of the analysis of the last request
EvaluatedRequest ==
    EvaluateFromGemini(request.analysis_results, Get(request.usage_years, Num(0)).num)

\* C29: when the report of the complete workflow is the template fallback,
\* the condition it names is the overall_condition the evaluator computed
\* for the request.
C29_FallbackNamesEvaluatedCondition ==
    (/\ result # None
     /\ WorkflowReturned.success
     /\ WorkflowReturned.report # None
     /\ WorkflowReturned.report[1].status = "fallback") =>
        WorkflowReturned.report[1].condition = EvaluatedRequest.overall_condition

----------------------------------------------------------------------------
(* The evaluator-calculator chain *)

\* the reference prices the chain is priced with, in cents
ChainPrices == {100000, 123456}

\* calculate_used_price on an evaluation with a caller-supplied price
ChainPricing(evaluation, reference_price, ties) ==
    PricingResult(NoRequest, evaluation, reference_price, "manual", ties)

\* C30: for a fixed reference price and usage_years, one more issue in a view
\* or one more view in a raw analysis that has a view never increases
\* calculated_used_price and never decreases discount_percentage of the
\* evaluation's price.
C30_PriceMonotoneInDamage ==
    [][ \A p \in ChainPrices, ties \in FloatTies :
          (/\ analysis # <<>>
           /\ TiesMatter(ties, summary, Some(ChainPricing(summary, p, ties)))
           /\ TiesMatter(ties, summary', Some(ChainPricing(summary', p, ties)))) =>
              /\ ChainPricing(summary', p, ties).calculated_used_price
                    <= ChainPricing(summary, p, ties).calculated_used_price
              /\ ChainPricing(summary', p, ties).discount_percentage
                    >= ChainPricing(summary, p, ties).discount_percentage ]_vars

====
